---- MODULE Spec2Model ----
(***************************************************************************)
(* Model of the bounded-concurrency probing engines of the repository:     *)
(*   - network_discovery: NetworkDiscoveryEngine (host prober and batch    *)
(*     scheduler), ProtocolDetector, PortScanner, DeviceDetector and the   *)
(*     ssh / telnet clients;                                               *)
(*   - net_scanner: AsyncPingScanner.                                      *)
(* Each sub-system has its own specification over its own variables; the   *)
(* variables of the other sub-systems stay at their initial values.        *)
(*   Spec       one discover_single_device call, credential by credential  *)
(*   SpecBatch  one discover_devices call on a fresh engine (timed)        *)
(*   SpecScan   host pool and per-host port pool (scan_ports)              *)
(*   SpecPing   AsyncPingScanner.scan_hosts, semaphore and two phases      *)
(*   SpecProbe  scan_hosts for one host, attempts and sleeps written down  *)
(*   SpecLatency  _measure_latency of one alive host, sample by sample     *)
(*   SpecSummary  ScanSummary.alive_percent / dead_percent                 *)
(*   SpecDetect   detect_all_protocols on every set of open ports          *)
(*   SpecPort     scan_single_port and the socket it opens                 *)
(*   SpecRescan   repeated detect_all_protocols scans of one host          *)
(*   SpecScope    the with-blocks around SSHClient / TelnetClient          *)
(*   SpecVendor   detect_vendor calls on one DeviceDetector                *)
(*   SpecType     determine_device_type on a vendor and an output          *)
(*   SpecEndToEnd discover_devices on the single target, probe included    *)
(*   SpecCredentials  DeviceCredentials and its __post_init__              *)
(*   SpecCidr     parse_line and _parse_ip_range on CIDR networks          *)
(*   SpecInterrupt  discover_devices with a KeyboardInterrupt              *)
(*   SpecReuse    discover_devices called again on the same engine         *)
(*   SpecManager  get_connection calls of threads on one connection manager*)
(*   SpecCleanup  cleanup_old_backups on a directory of backups            *)
(*   SpecBackup   backup_device from the save of the new backup on         *)
(*   SpecConfig   get_ignore_patterns calls on one ConfigManager           *)
(***************************************************************************)
EXTENDS Integers, Sequences, FiniteSets, TLC

\* ---------------------------------------------------------------- bounds
\* Longest credential list handed to the prober.
MaxCreds == 3
\* Number of DISCOVERY_COMMANDS modelled (the list's first entries).
NumCmds == 2
\* Most targets of one discover_devices call.
NumTargets == 3
\* Largest max_workers of the engine.
MaxWorkers == 2
\* Fixed duration of one host probe, in clock ticks.
ProbeDuration == 2
\* Most targets in the model of the two pools.
ScanHosts == 2
\* Number of catalog ports one scan_ports call probes (the list's first).
NumScanPorts == 2
\* Largest max_workers of the PortScanner.
MaxPortWorkers == 2
\* Most targets of one scan_hosts call.
PingHosts == 2
\* Largest concurrent_limit.
MaxLimit == 2
\* max_retries of the scan of several hosts.
PingRetries == 2
\* Largest max_retries of the scan of a single host.
MaxRetries == 3
\* Most rounds of the sampling loop before ping_duration has elapsed.
MaxSamples == 1
\* The same for the sampling of one host taken alone.
LatencyRounds == 3
\* Largest count held by a ScanSummary.
SummaryMax == 4
\* Most scan_single_port calls made one after the other.
MaxProbes == 2
\* Most scans of one host made one after the other.
MaxScans == 2
\* Most client scopes opened one after the other.
MaxScopes == 2

\* The longest output given to detect_vendor, in blocks of 500 characters.
MaxBlocks == 2
\* Most discover_devices calls made on one engine.
MaxCalls == 2
\* Most threads calling get_connection of one manager.
MaxCallers == 3
\* Number of moments at which a backup can have been saved.
MaxStamps == 3
\* Largest max_backups.
MaxKeep == 2
\* Most get_ignore_patterns calls made on one ConfigManager.
MaxGets == 3

\* ------------------------------------------------------------- variables
VARIABLES
    \* discover_single_device (one host)
    pc,                 \* position of the host prober
    credentials_list,   \* the caller's credential list
    protocol_info,      \* result of detect_all_protocols, None before it
    cred_idx,           \* index of the credential the current loop is at
    session,            \* the open SSHClient / TelnetClient session, if any
    attempts,           \* log of the session attempts made, in order
    device              \* the returned DiscoveredDevice, None if none

VARIABLES
    \* discover_devices (one batch on one engine)
    invocations,        \* discover_devices calls made on the engine so far
    max_workers,        \* self.max_workers
    ip_list,            \* the targets of the call
    main_pc,            \* position of the calling thread
    task,               \* state of each submitted future
    left,               \* clock ticks a running probe still needs
    ret,                \* what each finished probe returned or raised
    collected,          \* futures as_completed has handed to the caller
    discovered_devices, \* self.discovered_devices
    discovered_count,   \* the local progress counter
    now                 \* wall clock, in ticks

VARIABLES
    \* scan_ports inside the host probes
    port_max_workers,   \* PortScanner.max_workers
    port_task,          \* per host: state of each submitted port future
    found_open          \* per host: the ports found open so far

VARIABLES
    \* AsyncPingScanner
    concurrent_limit,   \* config.concurrent_limit
    max_retries,        \* config.max_retries
    ping_targets,       \* ip_list of scan_hosts
    scan_phase,         \* position of scan_hosts
    semaphore,          \* value of self.semaphore
    probe,              \* per host: the _execute_ping call in progress
    measure,            \* per alive host: the _measure_latency call
    results,            \* self.results
    summary,            \* self.summary
    ping_log,           \* attempts and sleeps of the current _execute_ping
    sampled             \* what each _execute_ping of _measure_latency returned

proberVars ==
    <<pc, credentials_list, protocol_info, cred_idx, session, attempts, device>>

batchVars ==
    <<invocations, max_workers, ip_list, main_pc, task, left, ret, collected,
      discovered_devices, discovered_count, now>>

scanVars == <<port_max_workers, port_task, found_open>>

VARIABLES
    \* a function of the repository called on its own
    call,               \* the function and its arguments
    returned,           \* what the call returned
    sockets,            \* the sockets and connections it left open
    cache               \* DeviceDetector.cache: the memoized detections

pureVars == <<call, returned, sockets, cache>>

pingVars ==
    <<concurrent_limit, max_retries, ping_targets, scan_phase, semaphore,
      probe, measure, results, summary, ping_log, sampled>>

VARIABLES
    \* one SSHConnectionManager or TelnetConnectionManager and its callers
    connections,        \* self.connections: key -> client
    manager_lock,       \* self.lock: the thread inside "with self.lock", or 0
    callers,            \* each thread's position in get_connection
    clients             \* the SSHClient / TelnetClient objects created so far

managerVars == <<connections, manager_lock, callers, clients>>

ManagerIdle ==
    /\ connections = <<>>
    /\ manager_lock = 0
    /\ callers = <<>>
    /\ clients = <<>>

VARIABLES
    \* one ConfigManager of the backup tool
    config              \* self.config['comparison']['ignore_patterns']

configVars == <<config>>

ConfigIdle == config = <<>>

vars == <<proberVars, batchVars, scanVars, pingVars, pureVars, managerVars, configVars>>

\* Python's None, for a text field and for an absent object.
None == "None"

Nothing == [none |-> TRUE]

\* No port recorded for a protocol (the key is absent in the code).
NoPort == 0

\* ---------------------------------------------------- protocol detection
PROTOCOL_PORTS ==
    [ssh |-> <<22, 2222, 22222>>, telnet |-> <<23, 2323>>, snmp |-> <<161>>,
     http |-> <<80, 8080>>, https |-> <<443, 8443>>, netconf |-> <<830>>,
     ftp |-> <<21>>, tftp |-> <<69>>, syslog |-> <<514>>,
     radius |-> <<1812, 1813>>, tacacs |-> <<49>>, dns |-> <<53>>,
     ntp |-> <<123>>, ldap |-> <<389, 636>>, kerberos |-> <<88>>]

Protocols == DOMAIN PROTOCOL_PORTS

\* Ports of the host that the environment may answer on.
EnvPorts == {22, 23, 80}

Range(s) == {s[i] : i \in DOMAIN s}

\* A plausible slip: a protocol counts as open as soon as any port is open.
ProtocolOpenAnyPort(protocol, open_ports) == open_ports # {}

\* is_open = any(port in open_ports for port in ports)
ProtocolOpen(protocol, open_ports) ==
    \E i \in DOMAIN PROTOCOL_PORTS[protocol] :
        PROTOCOL_PORTS[protocol][i] \in open_ports

\* A plausible slip: the loop over the protocol's ports has no break.
ProtocolPortLast(protocol, open_ports) ==
    LET ports == PROTOCOL_PORTS[protocol]
        hits == {i \in DOMAIN ports : ports[i] \in open_ports}
    IN  IF hits = {} THEN NoPort
        ELSE ports[CHOOSE i \in hits : \A j \in hits : i >= j]

\* The first port of the protocol's list that is open (None if none).
ProtocolPort(protocol, open_ports) ==
    LET ports == PROTOCOL_PORTS[protocol]
        hits == {i \in DOMAIN ports : ports[i] \in open_ports}
    IN  IF hits = {} THEN NoPort
        ELSE ports[CHOOSE i \in hits : \A j \in hits : i <= j]

detect_all_protocols(open_ports) ==
    [open_ports |-> open_ports,
     open |-> [p \in Protocols |-> ProtocolOpen(p, open_ports)],
     port |-> [p \in Protocols |-> ProtocolPort(p, open_ports)],
     has_management |-> ProtocolOpen("ssh", open_ports)
                        \/ ProtocolOpen("telnet", open_ports),
     has_web |-> ProtocolOpen("http", open_ports)
                 \/ ProtocolOpen("https", open_ports)]

CapabilityOrder ==
    <<"ssh", "telnet", "http", "https", "snmp", "netconf", "ftp", "tftp">>

_get_capabilities(info) ==
    LET IsOpen(p) == info.open[p] IN SelectSeq(CapabilityOrder, IsOpen)

\* ------------------------------------------------------------ credentials
DeviceCredentials(i) ==
    [username |-> <<"user", i>>, password |-> <<"secret", i>>,
     enable_password |-> None, ssh_port |-> 22, telnet_port |-> 23]

\* Lists of 0..MaxCreds credentials, in ascending and in descending order.
CredentialLists ==
    {[j \in 1..k |-> DeviceCredentials(j)] : k \in 0..MaxCreds}
    \cup {[j \in 1..k |-> DeviceCredentials(k + 1 - j)] : k \in 0..MaxCreds}

\* ------------------------------------------- DeviceDetector on an output
\* An output is a sequence of words; what stands between them matches no
\* pattern.

\* 'cisco' in output_lower
InOutput(word, output) == \E i \in DOMAIN output : output[i] = word

\* The vendors of VENDOR_PATTERNS, in the order of the dict.
VENDOR_PATTERNS ==
    <<"Cisco", "Juniper", "HP/HPE/Aruba", "MikroTik", "Arista", "Palo Alto",
      "Fortinet", "Ubiquiti", "Linux", "Huawei", "Dell", "Extreme",
      "Brocade", "Nokia">>

\* The words, of those the outputs below are made of, that some pattern of
\* the vendor matches: r'cisco' matches "cisco", r'ios' matches "ios" and
\* "fortios", r'asa' "asa", r'nexus' "nexus", r'c[0-9]+' "c2960";
\* r'juniper' and r'junos' their words; r'comware' and r'aruba' theirs;
\* r'fortios' matches "fortios".
Signatures(vendor_name) ==
    CASE vendor_name = "Cisco" ->
           {"cisco", "ios", "fortios", "asa", "nexus", "c2960"}
      [] vendor_name = "Juniper" -> {"juniper", "junos"}
      [] vendor_name = "HP/HPE/Aruba" -> {"comware", "aruba"}
      [] vendor_name = "Fortinet" -> {"fortios"}
      [] OTHER -> {}

\* any(re.search(pattern, output_lower) for pattern in patterns)
re_search(vendor_name, output) ==
    \E i \in DOMAIN output : output[i] \in Signatures(vendor_name)

\* No output below holds a model pattern ("Model:", "Platform:", "CSR1000").
extract_model(output, vendor) == None

\* for vendor_name, patterns in self.VENDOR_PATTERNS.items(): the first
\* vendor of the table one of whose patterns is found.
FirstInTable(output) ==
    LET found == {i \in DOMAIN VENDOR_PATTERNS :
                      re_search(VENDOR_PATTERNS[i], output)}
    IN  IF found = {}
        THEN None
        ELSE VENDOR_PATTERNS[CHOOSE i \in found : \A j \in found : i <= j]

\* The keywords tried once the table gave nothing.
ByKeyword(output) ==
    IF InOutput("cisco", output) THEN "Cisco"
    ELSE IF InOutput("juniper", output) THEN "Juniper"
    ELSE IF InOutput("mikrotik", output) THEN "MikroTik"
    ELSE IF InOutput("linux", output) THEN "Linux"
    ELSE None

\* What detect_vendor computes when the cache has no entry for the output.
Computed(output) ==
    IF FirstInTable(output) # None
    THEN FirstInTable(output)
    ELSE ByKeyword(output)

\* The word that follows the first occurrence of the word in the output.
WordAfter(word, output) ==
    LET at == {i \in 1..(Len(output) - 1) : output[i] = word}
    IN  IF at = {} THEN None
        ELSE output[(CHOOSE i \in at : \A j \in at : i <= j) + 1]

\* version_patterns, each searched in the whole output, in their order:
\* r'[Vv]ersion\s+(\S+)' (which the "ios version" and "software version"
\* patterns repeat), r'[Jj]UNOS\s+(\S+)', r'[Rr]elease\s+(\S+)'.
extract_version(output) ==
    IF WordAfter("version", output) # None THEN WordAfter("version", output)
    ELSE IF WordAfter("junos", output) # None THEN WordAfter("junos", output)
    ELSE WordAfter("release", output)

\* VENDOR_TO_DEVICE_TYPE: per vendor, the (subtype, device_type) pairs in the
\* order of the dict; the vendors that the dict does not hold have none.
VENDOR_TO_DEVICE_TYPE(vendor) ==
    CASE vendor = "Cisco" ->
           <<<<"ios", "cisco_ios">>, <<"ios-xe", "cisco_xe">>,
             <<"ios-xr", "cisco_xr">>, <<"nx-os", "cisco_nxos">>,
             <<"asa", "cisco_asa">>, <<"s300", "cisco_s300">>,
             <<"wlc", "cisco_wlc">>, <<"ios-telnet", "cisco_ios_telnet">>,
             <<"xe-telnet", "cisco_xe_telnet">>>>
      [] vendor = "Juniper" ->
           <<<<"junos", "juniper">>, <<"junos telnet", "juniper_telnet">>,
             <<"screenos", "juniper_screenos">>>>
      [] vendor = "HP/HPE/Aruba" ->
           <<<<"procurve", "hp_procurve">>, <<"comware", "hp_comware">>,
             <<"aruba", "aruba_osswitch">>,
             <<"procurve telnet", "hp_procurve_telnet">>>>
      [] vendor = "MikroTik" ->
           <<<<"routeros", "mikrotik_routeros">>,
             <<"routeros telnet", "mikrotik_routeros_telnet">>>>
      [] vendor = "Arista" ->
           <<<<"eos", "arista_eos">>, <<"eos telnet", "arista_eos_telnet">>>>
      [] vendor = "Palo Alto" ->
           <<<<"pan os", "paloalto_panos">>,
             <<"pan os telnet", "paloalto_panos_telnet">>>>
      [] vendor = "Fortinet" ->
           <<<<"fortios", "fortinet">>, <<"fortios telnet", "fortinet_telnet">>>>
      [] vendor = "Ubiquiti" ->
           <<<<"edge", "ubiquiti_edge">>,
             <<"edgeswitch", "ubiquiti_edgeswitch">>>>
      [] vendor = "Linux" ->
           <<<<"linux", "linux">>, <<"linux telnet", "linux_telnet">>>>
      [] vendor = "Huawei" ->
           <<<<"vrp", "huawei">>, <<"vrp telnet", "huawei_telnet">>>>
      [] vendor = "Dell" ->
           <<<<"powerconnect", "dell_powerconnect">>,
             <<"force10", "dell_force10">>, <<"os6", "dell_os6">>,
             <<"os10", "dell_os10">>>>
      [] OTHER -> <<>>

\* The subtype keys hold their hyphens replaced by spaces already
\* (subtype.replace('-', ' ')), but for the Cisco rows, which the code does
\* not look up.
determine_device_type(vendor, output) ==
    IF vendor = None THEN None
    ELSE IF vendor = "Cisco"
    THEN IF InOutput("asa", output) THEN "cisco_asa"
         ELSE IF InOutput("nexus", output) \/ InOutput("nx-os", output)
         THEN "cisco_nxos"
         ELSE IF InOutput("ios-xe", output) THEN "cisco_xe"
         ELSE IF InOutput("ios-xr", output) THEN "cisco_xr"
         ELSE "cisco_ios"
    ELSE LET subtypes == VENDOR_TO_DEVICE_TYPE(vendor)
             found == {i \in DOMAIN subtypes : InOutput(subtypes[i][1], output)}
         IN  IF subtypes = <<>> THEN None
             ELSE IF found # {}
             THEN subtypes[CHOOSE i \in found : \A j \in found : i <= j][2]
             ELSE subtypes[1][2]

\* ------------------------------------------------------ sessions, commands
ALL_DISCOVERY_COMMANDS ==
    <<"show version", "show ver", "version", "display version",
      "cat /etc/os-release", "uname -a", "/system resource print",
      "get system status", "show system", "show inventory">>

DISCOVERY_COMMANDS == SubSeq(ALL_DISCOVERY_COMMANDS, 1, NumCmds)

\* "Cisco IOS Software, C2960 ... Version 15.0", word by word.
Banner == <<"cisco", "ios", "software", "c2960", "version", "15.0">>

\* What one command returns: (success, output); len is the length of the
\* stripped output.  The outputs: an error of the channel, nothing, two
\* short lines, the error message of a device that does not know the
\* command, and the banner of a Cisco switch.
CommandResults ==
    {[success |-> FALSE, len |-> 30, output |-> <<"connection", "lost">>],
     [success |-> TRUE, len |-> 0, output |-> <<>>],
     [success |-> TRUE, len |-> 10, output |-> <<"uptime">>],
     [success |-> TRUE, len |-> 11, output |-> <<"invalid", "input">>],
     [success |-> TRUE, len |-> 40, output |-> Banner]}

\* What a session that is not logged in can return: no device banner.
UnauthenticatedResults ==
    {r \in CommandResults : Computed(r.output) = None}

\* What the hostname command returns: (success, output).
HostnameResults ==
    {[success |-> FALSE, text |-> "error"], [success |-> TRUE, text |-> ""],
     [success |-> TRUE, text |-> "sw1"], [success |-> TRUE, text |-> " sw1\n"],
     [success |-> TRUE, text |-> "\n"]}

\* hostname_output.strip() on the outputs above.
Strip(text) ==
    CASE text = " sw1\n" -> "sw1"
      [] text = "\n" -> ""
      [] OTHER -> text

\* SSHClient.connect: "ok", or the exception that made it return False.
SshConnectResults == {"ok", "auth", "timeout"}

\* TelnetClient.connect: the connection failed ("refused"), or the read
\* window after the password held one of # > $ % ("marker") or not.
TelnetConnectResults == {"refused", "nomarker", "marker"}

SSHClient_connect(conn) == conn = "ok"

TelnetClient_connect(conn) == conn = "marker"

\* A plausible slip: an output of exactly 10 characters ends the loop too.
UsefulFromTen(r) == r.success /\ r.len >= 10

\* if success and output and len(output.strip()) > 10
Useful(r) == r.success /\ r.len > 10

analyze_output(r) ==
    LET vendor == Computed(r.output)
    IN  IF r.len < 10
        THEN [raw_output |-> r.output, vendor |-> None, os_version |-> None,
              device_type |-> None]
        ELSE [raw_output |-> r.output, vendor |-> vendor,
              os_version |-> extract_version(r.output),
              device_type |-> IF vendor # None
                              THEN determine_device_type(vendor, r.output)
                              ELSE None]

\* A plausible slip: the output is kept as it came.
HostnameUnstripped(ip, hn) ==
    IF hn.success /\ hn.text # "" THEN hn.text ELSE ip

\* device_info['hostname'] after the hostname command
Hostname(ip, hn) ==
    IF hn.success /\ hn.text # "" THEN Strip(hn.text) ELSE ip

\* ---------------------------------------------------------- DeviceFactory
DiscoveredDevice(ip, found, creds, caps, protocol) ==
    [ip_address |-> ip, hostname |-> found.hostname,
     device_type |-> found.device_type, vendor |-> found.vendor,
     os_version |-> found.os_version,
     username |-> creds.username, password |-> creds.password,
     protocol |-> protocol, capabilities |-> caps, status |-> "active"]

\* A plausible slip: the ssh factory copied from the telnet one.
SshRecordAsTelnet(ip, found, creds, caps) ==
    DiscoveredDevice(ip, found, creds, caps, "telnet")

from_ssh_discovery(ip, found, creds, caps) ==
    DiscoveredDevice(ip, found, creds, caps, "ssh")

from_telnet_discovery(ip, found, creds, caps) ==
    DiscoveredDevice(ip, found, creds, caps, "telnet")

\* ------------------------------------------------ discover_single_device
ProbeIp == "10.0.0.5"

\* A plausible slip: the loop walks the list from its end.
LoopCredentialReversed(list, i) == list[Len(list) + 1 - i]

\* The credential of the i-th iteration of "for creds in credentials_list".
LoopCredential(list, i) == list[i]

\* Where the prober goes once the ssh path is over without a record.
AfterSsh(info, n) ==
    IF info.open["telnet"] /\ n > 0 THEN [pc |-> "TRYING_TELNET", idx |-> 1]
    ELSE [pc |-> "FAILURE", idx |-> 0]

\* Where the prober goes after detect_all_protocols.
AfterSurface(info, n) ==
    IF ~info.has_management THEN [pc |-> "FAILURE", idx |-> 0]
    ELSE IF info.open["ssh"] /\ n > 0 THEN [pc |-> "TRYING_SSH", idx |-> 1]
    ELSE AfterSsh(info, n)

\* A plausible slip: the first ssh failure already falls through to telnet.
AfterSshFailureNoExhaust(i, info, n) == AfterSsh(info, n)

\* Where the prober goes when discover_via_ssh returned None for credential i.
AfterSshFailure(i, info, n) ==
    IF i < n THEN [pc |-> "TRYING_SSH", idx |-> i + 1] ELSE AfterSsh(info, n)

\* Where the prober goes when discover_via_telnet returned None.
AfterTelnetFailure(i, info, n) ==
    IF i < n THEN [pc |-> "TRYING_TELNET", idx |-> i + 1]
    ELSE [pc |-> "FAILURE", idx |-> 0]

AfterFailure(protocol, i, info, n) ==
    IF protocol = "ssh" THEN AfterSshFailure(i, info, n)
    ELSE AfterTelnetFailure(i, info, n)

notProber == <<batchVars, scanVars, pingVars, pureVars, managerVars, configVars>>

\* The engine before any call: the state the other specifications keep.
ProberIdle ==
    /\ pc = "idle"
    /\ credentials_list = <<>>
    /\ protocol_info = Nothing
    /\ cred_idx = 0
    /\ session = Nothing
    /\ attempts = <<>>
    /\ device = Nothing

ProberInit ==
    /\ pc = "SCANNING_SURFACE"
    /\ credentials_list \in CredentialLists
    /\ protocol_info = Nothing
    /\ cred_idx = 0
    /\ session = Nothing
    /\ attempts = <<>>
    /\ device = Nothing

\* protocol_info = self.protocol_detector.detect_all_protocols(ip)
DetectProtocols ==
    /\ UNCHANGED notProber
    /\ pc = "SCANNING_SURFACE"
    /\ \E open_ports \in SUBSET EnvPorts :
         LET info == detect_all_protocols(open_ports)
             nxt == AfterSurface(info, Len(credentials_list))
         IN  /\ protocol_info' = info
             /\ pc' = nxt.pc
             /\ cred_idx' = nxt.idx
    /\ UNCHANGED <<credentials_list, session, attempts, device>>

\* scan_ports cannot start its pool: the exception leaves the prober.
DetectRaises ==
    /\ UNCHANGED notProber
    /\ pc = "SCANNING_SURFACE"
    /\ pc' = "RAISED"
    /\ UNCHANGED <<credentials_list, protocol_info, cred_idx, session,
                   attempts, device>>

Attempt(protocol, accepted, error, found) ==
    [protocol |-> protocol, index |-> cred_idx,
     username |-> LoopCredential(credentials_list, cred_idx).username,
     authenticated |-> accepted, error |-> error, found |-> found,
     hostname |-> Nothing]

\* discover_via_ssh / discover_via_telnet returns None: the session is
\* closed by the with block and the credential loop goes on.
AttemptFails(protocol, accepted, error) ==
    LET nxt == AfterFailure(protocol, cred_idx, protocol_info,
                            Len(credentials_list))
    IN  /\ attempts' = Append(attempts, Attempt(protocol, accepted, error, FALSE))
        /\ session' = Nothing
        /\ pc' = nxt.pc
        /\ cred_idx' = nxt.idx
        /\ UNCHANGED <<credentials_list, protocol_info, device>>

\* with SSHClient() as ssh_client: success, error = ssh_client.connect(...)
SshConnect ==
    /\ UNCHANGED notProber
    /\ pc = "TRYING_SSH"
    /\ \E conn \in SshConnectResults :
         IF SSHClient_connect(conn)
         THEN /\ session' = [protocol |-> "ssh", accepted |-> TRUE,
                             next_cmd |-> 1, last |-> Nothing,
                             info |-> Nothing]
              /\ pc' = "SSH_SESSION"
              /\ UNCHANGED <<credentials_list, protocol_info, cred_idx,
                             attempts, device>>
         ELSE AttemptFails("ssh", FALSE, conn)

\* with TelnetClient() as telnet_client: ... telnet_client.connect(...)
\* Whether the device accepted the login is the environment's truth;
\* connect only sees the prompt markers.
TelnetConnect ==
    /\ UNCHANGED notProber
    /\ pc = "TRYING_TELNET"
    /\ \E conn \in TelnetConnectResults, accepted \in BOOLEAN :
         /\ conn = "refused" => ~accepted
         /\ IF TelnetClient_connect(conn)
            THEN /\ session' = [protocol |-> "telnet", accepted |-> accepted,
                                next_cmd |-> 1, last |-> Nothing,
                             info |-> Nothing]
                 /\ pc' = "TELNET_SESSION"
                 /\ UNCHANGED <<credentials_list, protocol_info, cred_idx,
                                attempts, device>>
            ELSE AttemptFails("telnet", accepted, None)

\* One iteration of "for command in self.DISCOVERY_COMMANDS".
SessionCommand(protocol, at) ==
    /\ UNCHANGED notProber
    /\ pc = at
    /\ session.info = Nothing
    /\ \E r \in IF session.accepted THEN CommandResults
                ELSE UnauthenticatedResults :
         IF Useful(r)
         THEN /\ session' = [session EXCEPT !.last = r,
                                             !.info = analyze_output(r)]
              /\ UNCHANGED <<pc, credentials_list, protocol_info, cred_idx,
                             attempts, device>>
         ELSE IF session.next_cmd < Len(DISCOVERY_COMMANDS)
         THEN /\ session' = [session EXCEPT !.last = r, !.next_cmd = @ + 1]
              /\ UNCHANGED <<pc, credentials_list, protocol_info, cred_idx,
                             attempts, device>>
         ELSE AttemptFails(protocol, session.accepted, None)

SshCommand == SessionCommand("ssh", "SSH_SESSION")

TelnetCommand == SessionCommand("telnet", "TELNET_SESSION")

\* The hostname command, the return of device_info and the record built
\* from it by the engine.
SessionHostname(protocol, at) ==
    /\ UNCHANGED notProber
    /\ pc = at
    /\ session.info # Nothing
    /\ \E hn \in HostnameResults :
         LET creds == LoopCredential(credentials_list, cred_idx)
             found == [vendor |-> session.info.vendor,
                       device_type |-> session.info.device_type,
                       os_version |-> session.info.os_version,
                       hostname |-> Hostname(ProbeIp, hn)]
             caps == _get_capabilities(protocol_info)
         IN  /\ device' = IF protocol = "ssh"
                          THEN from_ssh_discovery(ProbeIp, found, creds, caps)
                          ELSE from_telnet_discovery(ProbeIp, found, creds, caps)
             /\ attempts' = Append(attempts,
                    [Attempt(protocol, session.accepted, None, TRUE)
                        EXCEPT !.hostname = hn])
    /\ session' = Nothing
    /\ pc' = "SUCCESS"
    /\ UNCHANGED <<credentials_list, protocol_info, cred_idx>>

SshHostname == SessionHostname("ssh", "SSH_SESSION")

TelnetHostname == SessionHostname("telnet", "TELNET_SESSION")

\* ------------------------------------------------------- discover_devices
notBatch == <<proberVars, scanVars, pingVars, pureVars, managerVars, configVars>>

Targets == 1..NumTargets

TargetIp(h) == <<"10.0.0", h>>

\* What one discover_single_device call hands to its future: None, an
\* exception, or the record DeviceFactory builds for that ip.
ProbeReturns(ip) ==
    {[kind |-> "none", device |-> Nothing],
     [kind |-> "raise", device |-> Nothing],
     [kind |-> "device",
      device |-> from_ssh_discovery(ip,
                     [vendor |-> "Cisco", device_type |-> "cisco_ios",
                      os_version |-> "15.0", hostname |-> "sw1"],
                     DeviceCredentials(1), <<"ssh">>)]}

Pending == [kind |-> "pending", device |-> Nothing]

Running == {h \in DOMAIN task : task[h] = "running"}

Queued == {h \in DOMAIN task : task[h] = "queued"}

\* A plausible slip: the pool starts a thread for every submitted task.
WorkerAlwaysAvailable == TRUE

\* ThreadPoolExecutor(max_workers): a queued task starts only on a free worker.
WorkerAvailable == Cardinality(Running) < max_workers

\* A plausible slip: the exception of future.result() leaves the loop.
ProbeExceptionPropagates == "raised"

\* except Exception as e: logger.error(...); the loop goes on.
OnProbeException == "collecting"

\* A plausible slip: the assignment replaces the dict by the new entry.
DictReplaced(d, k, v) == [x \in {k} |-> v]

\* d[ip] = device on a Python dict.
DictSet(d, k, v) == [x \in DOMAIN d \cup {k} |-> IF x = k THEN v ELSE d[x]]

PureIdle ==
    /\ call = Nothing
    /\ returned = Nothing
    /\ sockets = {}
    /\ cache = {}

PingIdle ==
    /\ concurrent_limit = 1
    /\ max_retries = 1
    /\ ping_targets = <<>>
    /\ scan_phase = "idle"
    /\ semaphore = 1
    /\ probe = <<>>
    /\ measure = <<>>
    /\ results = <<>>
    /\ summary = Nothing
    /\ ping_log = <<>>
    /\ sampled = <<>>

ScanIdle ==
    /\ port_max_workers = 1
    /\ port_task = <<>>
    /\ found_open = <<>>

BatchIdle ==
    /\ invocations = 0
    /\ max_workers = 1
    /\ ip_list = <<>>
    /\ main_pc = "idle"
    /\ task = <<>>
    /\ left = <<>>
    /\ ret = <<>>
    /\ collected = {}
    /\ discovered_devices = <<>>
    /\ discovered_count = 0
    /\ now = 0

\* NetworkDiscoveryEngine(max_workers) just constructed, before the call.
BatchInit ==
    /\ invocations = 1
    /\ max_workers \in 1..MaxWorkers
    /\ ip_list \in {[h \in 1..n |-> TargetIp(h)] : n \in 0..NumTargets}
    /\ main_pc = "constructed"
    /\ task = <<>>
    /\ left = <<>>
    /\ ret = <<>>
    /\ collected = {}
    /\ discovered_devices = <<>>
    /\ discovered_count = 0
    /\ now = 0

\* executor.submit(self.discover_single_device, ip, ...) for ip in ip_list
SubmitAll ==
    /\ UNCHANGED notBatch
    /\ main_pc = "constructed"
    /\ main_pc' = "collecting"
    /\ task' = [h \in DOMAIN ip_list |-> "queued"]
    /\ left' = [h \in DOMAIN ip_list |-> 0]
    /\ ret' = [h \in DOMAIN ip_list |-> Pending]
    /\ UNCHANGED <<invocations, max_workers, ip_list, collected, discovered_devices,
                   discovered_count, now>>

\* A pool worker takes the oldest queued task and enters
\* discover_single_device.
StartProbe(h) ==
    /\ UNCHANGED notBatch
    /\ h \in Queued
    /\ \A g \in Queued : h <= g
    /\ WorkerAvailable
    /\ task' = [task EXCEPT ![h] = "running"]
    /\ left' = [left EXCEPT ![h] = ProbeDuration]
    /\ UNCHANGED <<invocations, max_workers, ip_list, main_pc, ret, collected,
                   discovered_devices, discovered_count, now>>

\* Time passes for every running probe.
Tick ==
    /\ UNCHANGED notBatch
    /\ Running # {}
    /\ \A h \in Running : left[h] > 0
    /\ left' = [h \in DOMAIN left |->
                    IF h \in Running THEN left[h] - 1 ELSE left[h]]
    /\ now' = now + 1
    /\ UNCHANGED <<invocations, max_workers, ip_list, main_pc, task, ret, collected,
                   discovered_devices, discovered_count>>

\* discover_single_device returns or raises; the future is done.
FinishProbe(h) ==
    /\ UNCHANGED notBatch
    /\ h \in Running
    /\ left[h] = 0
    /\ \E r \in ProbeReturns(ip_list[h]) : ret' = [ret EXCEPT ![h] = r]
    /\ task' = [task EXCEPT ![h] = "done"]
    /\ UNCHANGED <<invocations, max_workers, ip_list, main_pc, left, collected,
                   discovered_devices, discovered_count, now>>

\* One iteration of "for future in as_completed(future_to_ip)".
Collect(h) ==
    /\ UNCHANGED notBatch
    /\ main_pc = "collecting"
    /\ h \in DOMAIN task
    /\ task[h] = "done"
    /\ h \notin collected
    /\ collected' = collected \cup {h}
    /\ IF ret[h].kind = "device"
       THEN /\ discovered_devices' =
                   DictSet(discovered_devices, ip_list[h], ret[h].device)
            /\ discovered_count' = discovered_count + 1
            /\ UNCHANGED main_pc
       ELSE IF ret[h].kind = "raise"
       THEN /\ main_pc' = OnProbeException
            /\ UNCHANGED <<discovered_devices, discovered_count>>
       ELSE UNCHANGED <<main_pc, discovered_devices, discovered_count>>
    /\ UNCHANGED <<invocations, max_workers, ip_list, task, left, ret, now>>

\* as_completed is exhausted, the executor is shut down, the map returned.
ReturnDevices ==
    /\ UNCHANGED notBatch
    /\ main_pc = "collecting"
    /\ collected = DOMAIN task
    /\ main_pc' = "returned"
    /\ UNCHANGED <<invocations, max_workers, ip_list, task, left, ret, collected,
                   discovered_devices, discovered_count, now>>

BatchNext ==
    \/ SubmitAll
    \/ \E h \in Targets : StartProbe(h)
    \/ Tick
    \/ \E h \in Targets : FinishProbe(h)
    \/ \E h \in Targets : Collect(h)
    \/ ReturnDevices

InitBatch ==
    BatchInit /\ ProberIdle /\ ScanIdle /\ PingIdle /\ PureIdle /\ ManagerIdle /\ ConfigIdle

SpecBatch == InitBatch /\ [][BatchNext]_vars

\* ------------------------------------------ discover_devices, interrupted
\* KeyboardInterrupt reaches the main thread while it waits in
\* as_completed: the exception leaves the loop (it is no Exception) and the
\* with block, whose __exit__ is executor.shutdown(wait=True).
Interrupt ==
    /\ UNCHANGED notBatch
    /\ main_pc = "collecting"
    /\ main_pc' = "interrupted"
    /\ UNCHANGED <<invocations, max_workers, ip_list, task, left, ret, collected,
                   discovered_devices, discovered_count, now>>

\* shutdown(wait=True) returns once the workers have run every submitted
\* task; the interrupt goes on to main, which exits.
ShutdownDone ==
    /\ UNCHANGED notBatch
    /\ main_pc = "interrupted"
    /\ \A h \in DOMAIN task : task[h] = "done"
    /\ main_pc' = "exited"
    /\ UNCHANGED <<invocations, max_workers, ip_list, task, left, ret, collected,
                   discovered_devices, discovered_count, now>>

InterruptNext ==
    \/ BatchNext
    \/ Interrupt
    \/ ShutdownDone

SpecInterrupt == InitBatch /\ [][InterruptNext]_vars

\* ------------------------------------- discover_devices, called once more
\* The caller invokes discover_devices again on the same engine. The locals
\* (total_devices, discovered_count, start_time, the executor and its
\* futures) are new; self.discovered_devices is the instance's dict, set in
\* __init__ only.
DiscoverAgain ==
    /\ UNCHANGED notBatch
    /\ main_pc = "returned"
    /\ invocations < MaxCalls
    /\ invocations' = invocations + 1
    /\ ip_list' \in {[h \in 1..n |-> TargetIp(h)] : n \in 0..NumTargets}
    /\ main_pc' = "constructed"
    /\ task' = <<>>
    /\ left' = <<>>
    /\ ret' = <<>>
    /\ collected' = {}
    /\ discovered_count' = 0
    /\ now' = 0
    /\ UNCHANGED <<max_workers, discovered_devices>>

ReuseNext ==
    \/ BatchNext
    \/ DiscoverAgain

SpecReuse == InitBatch /\ [][ReuseNext]_vars



\* ------------------------------------------- scan_ports under the host pool
\* all_ports of detect_all_protocols: the catalog's ports, protocol by
\* protocol, in the order of the table.
AllPorts ==
    <<22, 2222, 22222, 23, 2323, 161, 80, 8080, 443, 8443, 830, 21, 69, 514,
      1812, 1813, 49, 53, 123, 389, 636, 88>>

ScanPortList == SubSeq(AllPorts, 1, NumScanPorts)

notScan == <<proberVars, pingVars, pureVars, managerVars, configVars>>

PortRunning(h) == {i \in DOMAIN port_task[h] : port_task[h][i] = "running"}

PortQueued(h) == {i \in DOMAIN port_task[h] : port_task[h][i] = "queued"}

\* A plausible slip: the port pool starts a thread per port.
PortWorkerAlwaysAvailable(h) == TRUE

\* ThreadPoolExecutor(max_workers=self.max_workers) of one scan_ports call.
PortWorkerAvailable(h) == Cardinality(PortRunning(h)) < port_max_workers

\* The engine, its detector and its PortScanner just constructed.
InitScan ==
    /\ ProberIdle
    /\ PingIdle
    /\ PureIdle /\ ManagerIdle /\ ConfigIdle
    /\ invocations = 1
    /\ max_workers \in 1..MaxWorkers
    /\ ip_list \in {[h \in 1..n |-> TargetIp(h)] : n \in 1..ScanHosts}
    /\ main_pc = "constructed"
    /\ task = <<>>
    /\ left = <<>>
    /\ ret = <<>>
    /\ collected = {}
    /\ discovered_devices = <<>>
    /\ discovered_count = 0
    /\ now = 0
    /\ port_max_workers \in 1..MaxPortWorkers
    /\ port_task = <<>>
    /\ found_open = <<>>

\* executor.submit(self.discover_single_device, ip, ...) for ip in ip_list
ScanSubmitAll ==
    /\ main_pc = "constructed"
    /\ main_pc' = "collecting"
    /\ task' = [h \in DOMAIN ip_list |-> "queued"]
    /\ port_task' = [h \in DOMAIN ip_list |-> <<>>]
    /\ found_open' = [h \in DOMAIN ip_list |-> {}]
    /\ UNCHANGED <<notScan, invocations, max_workers, ip_list, left, ret, collected,
                   discovered_devices, discovered_count, now,
                   port_max_workers>>

\* A host worker takes the oldest queued target.
ScanStartProbe(h) ==
    /\ h \in Queued
    /\ \A g \in Queued : h <= g
    /\ WorkerAvailable
    /\ task' = [task EXCEPT ![h] = "running"]
    /\ UNCHANGED <<notScan, invocations, max_workers, ip_list, main_pc, left, ret,
                   collected, discovered_devices, discovered_count, now,
                   scanVars>>

\* scan_ports: a pool of its own, executor.submit(scan_single_port, ip,
\* port) for port in ports.
SubmitPorts(h) ==
    /\ h \in Running
    /\ port_task[h] = <<>>
    /\ port_task' = [port_task EXCEPT
                        ![h] = [i \in DOMAIN ScanPortList |-> "queued"]]
    /\ UNCHANGED <<notScan, batchVars, port_max_workers, found_open>>

\* A port worker of host h takes the oldest queued port.
StartPortProbe(h, i) ==
    /\ h \in Running
    /\ i \in PortQueued(h)
    /\ \A j \in PortQueued(h) : i <= j
    /\ PortWorkerAvailable(h)
    /\ port_task' = [port_task EXCEPT ![h][i] = "running"]
    /\ UNCHANGED <<notScan, batchVars, port_max_workers, found_open>>

\* scan_single_port returns (port, is_open); an open port is appended.
FinishPortProbe(h, i) ==
    /\ h \in Running
    /\ i \in PortRunning(h)
    /\ port_task' = [port_task EXCEPT ![h][i] = "done"]
    /\ \E is_open \in BOOLEAN :
         found_open' = [found_open EXCEPT
                           ![h] = IF is_open THEN @ \cup {ScanPortList[i]}
                                  ELSE @]
    /\ UNCHANGED <<notScan, batchVars, port_max_workers>>

\* Every port future is done: scan_ports returns, the rest of the probe
\* runs in the same host worker and the host future is done.
ScanFinishProbe(h) ==
    /\ h \in Running
    /\ port_task[h] # <<>>
    /\ \A i \in DOMAIN port_task[h] : port_task[h][i] = "done"
    /\ task' = [task EXCEPT ![h] = "done"]
    /\ UNCHANGED <<notScan, invocations, max_workers, ip_list, main_pc, left, ret,
                   collected, discovered_devices, discovered_count, now,
                   scanVars>>

ScanNext ==
    \/ ScanSubmitAll
    \/ \E h \in 1..ScanHosts : ScanStartProbe(h)
    \/ \E h \in 1..ScanHosts : SubmitPorts(h)
    \/ \E h \in 1..ScanHosts, i \in 1..NumScanPorts : StartPortProbe(h, i)
    \/ \E h \in 1..ScanHosts, i \in 1..NumScanPorts : FinishPortProbe(h, i)
    \/ \E h \in 1..ScanHosts : ScanFinishProbe(h)

SpecScan == InitScan /\ [][ScanNext]_vars

\* --------------------------------------------------- AsyncPingScanner
notPing == <<proberVars, batchVars, scanVars, pureVars, managerVars, configVars>>

\* _extract_latency found no time in the output, or there is no output.
NoLatency == -1

\* Round-trip times _extract_latency can return, in hundredths of a ms.
LatencyValues == {1000, 2000, 3000}

\* The outputs of ping the scan of several hosts tells apart.
PingLatencies == {1000}

\* _extract_latency is called on the output of a ping that exited 0 only.
ExtractedLatency(outcome, found) ==
    IF outcome = "exit0" THEN found ELSE {NoLatency}

PingTargetIp(h) == <<"192.168.1", h>>

\* How one ping subprocess can end: returncode 0, another returncode,
\* asyncio.TimeoutError from wait_for, any other exception.
AttemptOutcomes == {"exit0", "nonzero", "timeout", "exception"}

\* No _execute_ping call of the host is in progress or awaited.
NoProbe ==
    [pc |-> "none", attempt |-> 0, result |-> None, latency |-> NoLatency]

\* A coroutine that called _execute_ping and waits for the semaphore.
Waiting ==
    [pc |-> "acquire", attempt |-> 0, result |-> None, latency |-> NoLatency]

ScanResult(ip, is_alive, avg_latency) ==
    [ip |-> ip, is_alive |-> is_alive, avg_latency |-> avg_latency,
     last_error |-> None]

\* A plausible slip: the last attempt is retried once more.
RetryOneMore(attempt) == attempt < max_retries

\* if attempt < self.config.max_retries - 1
Retry(attempt) == attempt < max_retries - 1

\* 0.1 * (attempt + 1) seconds, in tenths of a second
Backoff(attempt) == attempt + 1

Return(p, result, latency) ==
    [pc |-> "returned", attempt |-> 0, result |-> result,
     latency |-> latency]

\* The body of the retry loop after the subprocess of attempt p.attempt
\* ended with outcome.
AfterAttempt(p, outcome, latency) ==
    CASE outcome = "exit0" -> Return(p, "success", latency)
      [] outcome = "nonzero" ->
            IF Retry(p.attempt) THEN [p EXCEPT !.pc = "sleep"]
            ELSE Return(p, "unreachable", NoLatency)
      [] outcome = "timeout" ->
            IF Retry(p.attempt) THEN [p EXCEPT !.attempt = @ + 1]
            ELSE Return(p, "timeout", NoLatency)
      [] outcome = "exception" ->
            IF Retry(p.attempt) THEN [p EXCEPT !.attempt = @ + 1]
            ELSE Return(p, "error", NoLatency)

RECURSIVE Sum(_)
Sum(seq) == IF seq = <<>> THEN 0 ELSE Head(seq) + Sum(Tail(seq))

\* round(n / d) to the unit, ties to the even neighbour
RoundHalfEven(n, d) ==
    LET q == n \div d
        r == n % d
    IN  IF 2 * r < d THEN q
        ELSE IF 2 * r > d THEN q + 1
        ELSE IF q % 2 = 0 THEN q ELSE q + 1

\* A plausible slip: the mean is cut, not rounded, to 2 decimals.
AverageTruncated(latencies) ==
    IF latencies = <<>> THEN NoLatency
    ELSE Sum(latencies) \div Len(latencies)

\* What _measure_latency returns for the samples it kept.
Average(latencies) ==
    IF latencies = <<>> THEN NoLatency
    ELSE RoundHalfEven(Sum(latencies), Len(latencies))

\* A plausible slip: the coroutine enters without looking at the value.
SemaphoreAlwaysFree == TRUE

\* asyncio.Semaphore: acquire returns at once only when the value is > 0
SemaphoreFree == semaphore > 0

\* A scanner just constructed for a configuration and a target list.
PingInit(hosts, retries) ==
    /\ concurrent_limit \in 1..MaxLimit
    /\ max_retries \in retries
    /\ ping_targets \in {[h \in 1..n |-> PingTargetIp(h)] : n \in hosts}
    /\ scan_phase = "constructed"
    /\ semaphore = concurrent_limit
    /\ probe = <<>>
    /\ measure = <<>>
    /\ results = <<>>
    /\ summary = [total_hosts |-> 0, alive_hosts |-> 0, dead_hosts |-> 0]
    /\ ping_log = <<>>
    /\ sampled = <<>>

\* scan_hosts up to the gather of _check_availability: one
\* _check_single_host coroutine per target.
StartScan ==
    /\ scan_phase = "constructed"
    /\ scan_phase' = "phase1"
    /\ summary' = [summary EXCEPT !.total_hosts = Len(ping_targets)]
    /\ probe' = [h \in DOMAIN ping_targets |-> Waiting]
    /\ ping_log' = <<>>
    /\ UNCHANGED <<notPing, concurrent_limit, max_retries, ping_targets,
                   semaphore, measure, results, sampled>>

\* async with self.semaphore: entered, the first attempt starts.
Acquire(h) ==
    /\ h \in DOMAIN probe
    /\ probe[h].pc = "acquire"
    /\ SemaphoreFree
    /\ semaphore' = semaphore - 1
    /\ probe' = [probe EXCEPT ![h].pc = "attempt"]
    /\ UNCHANGED <<notPing, concurrent_limit, max_retries, ping_targets,
                   scan_phase, measure, results, summary, ping_log,
                   sampled>>

\* One pass of the retry loop; a return leaves the async with block and
\* releases the semaphore.
PingStep(h, outcome, latency) ==
    /\ h \in DOMAIN probe
    /\ probe[h].pc = "attempt"
    /\ probe' = [probe EXCEPT ![h] = AfterAttempt(@, outcome, latency)]
    /\ semaphore' = IF probe'[h].pc = "returned" THEN semaphore + 1
                    ELSE semaphore
    /\ UNCHANGED <<notPing, concurrent_limit, max_retries, ping_targets,
                   scan_phase, measure, results, summary, sampled>>

PingAttempt(h) ==
    \E outcome \in AttemptOutcomes :
      \E latency \in ExtractedLatency(outcome, PingLatencies) :
        /\ PingStep(h, outcome, latency)
        /\ UNCHANGED ping_log

LogEvent(kind, attempt, outcome, tenths) ==
    [kind |-> kind, attempt |-> attempt, outcome |-> outcome,
     tenths |-> tenths]

\* The same pass, with the attempt and the sleep it starts written down.
LoggedAttempt(h) ==
    \E outcome \in AttemptOutcomes :
      \E latency \in ExtractedLatency(outcome, LatencyValues \cup {NoLatency}) :
        /\ PingStep(h, outcome, latency)
        /\ ping_log' =
             LET tried == Append(ping_log,
                     LogEvent("attempt", probe[h].attempt, outcome, 0))
             IN  IF probe'[h].pc = "sleep"
                 THEN Append(tried, LogEvent("sleep", probe[h].attempt, None,
                                             Backoff(probe[h].attempt)))
                 ELSE tried

\* asyncio.sleep of the backoff is over: continue with the next attempt.
BackoffDone(h) ==
    /\ h \in DOMAIN probe
    /\ probe[h].pc = "sleep"
    /\ probe' = [probe EXCEPT ![h].pc = "attempt", ![h].attempt = @ + 1]
    /\ UNCHANGED <<notPing, concurrent_limit, max_retries, ping_targets,
                   scan_phase, semaphore, measure, results, summary,
                   ping_log,
                   sampled>>

\* result == PingResult.SUCCESS of _check_single_host
Alive == {h \in DOMAIN probe : probe[h].result = "success"}

\* A plausible slip: dead_hosts is left as it was.
SummarizedAliveOnly(alive) == [summary EXCEPT !.alive_hosts = alive]

\* The end of scan_hosts: the summary counts.
Summarized(alive) ==
    [summary EXCEPT !.alive_hosts = alive,
                    !.dead_hosts = summary.total_hosts - alive]

\* A plausible slip: every scanned host is handed to Phase 2.
EveryHost(filed) == DOMAIN filed

\* if is_alive: alive_hosts.append(ip)
AliveHosts(filed) == {h \in DOMAIN filed : filed[h].is_alive}

\* gather returned: _check_availability files every result, scan_hosts
\* goes on to _measure_latencies, which starts one _measure_latency per
\* alive host or returns at once when there is none.
CheckAvailabilityDone ==
    /\ scan_phase = "phase1"
    /\ \A h \in DOMAIN probe : probe[h].pc = "returned"
    /\ results' = [h \in DOMAIN ping_targets |->
                     ScanResult(ping_targets[h], h \in Alive,
                                IF h \in Alive THEN probe[h].latency
                                ELSE NoLatency)]
    /\ IF AliveHosts(results') = {}
       THEN /\ scan_phase' = "finished"
            /\ summary' = Summarized(0)
            /\ UNCHANGED measure
       ELSE /\ scan_phase' = "phase2"
            /\ measure' = [h \in AliveHosts(results') |->
                             [pc |-> "loop", latencies |-> <<>>,
                              rounds |-> 0, avg |-> NoLatency]]
            /\ UNCHANGED summary
    /\ probe' = [h \in DOMAIN probe |-> NoProbe]
    /\ UNCHANGED <<notPing, concurrent_limit, max_retries, ping_targets,
                   semaphore, ping_log,
                   sampled>>

\* while time.time() - start_time < ping_duration: one more _execute_ping
MeasureRound(h) ==
    /\ h \in DOMAIN measure
    /\ measure[h].pc = "loop"
    /\ measure[h].rounds < MaxSamples
    /\ measure' = [measure EXCEPT ![h].pc = "pinging", ![h].rounds = @ + 1]
    /\ probe' = [probe EXCEPT ![h] = Waiting]
    /\ ping_log' = <<>>
    /\ UNCHANGED <<notPing, concurrent_limit, max_retries, ping_targets,
                   scan_phase, semaphore, results, summary, sampled>>

\* _execute_ping returned: keep a successful sample, sleep ping_interval.
SampleDone(h) ==
    /\ h \in DOMAIN measure
    /\ measure[h].pc = "pinging"
    /\ probe[h].pc = "returned"
    /\ measure' = [measure EXCEPT
                      ![h].pc = "loop",
                      ![h].latencies =
                          IF /\ probe[h].result = "success"
                             /\ probe[h].latency # NoLatency
                          THEN Append(@, probe[h].latency) ELSE @]
    /\ probe' = [probe EXCEPT ![h] = NoProbe]
    /\ UNCHANGED <<notPing, concurrent_limit, max_retries, ping_targets,
                   scan_phase, semaphore, results, summary, ping_log,
                   sampled>>

\* ping_duration has elapsed (the first test of the loop follows
\* start_time at once and ping_duration > 0): the average is returned.
MeasureTimeUp(h) ==
    /\ h \in DOMAIN measure
    /\ measure[h].pc = "loop"
    /\ measure[h].rounds >= 1
    /\ measure' = [measure EXCEPT ![h].pc = "done",
                                  ![h].avg = Average(measure[h].latencies)]
    /\ UNCHANGED <<notPing, concurrent_limit, max_retries, ping_targets,
                   scan_phase, semaphore, probe, results, summary, ping_log,
                   sampled>>

\* gather of _measure_latencies returned: the averages are filed and
\* scan_hosts ends.
MeasureLatenciesDone ==
    /\ scan_phase = "phase2"
    /\ \A h \in DOMAIN measure : measure[h].pc = "done"
    /\ results' = [h \in DOMAIN results |->
                     IF h \in DOMAIN measure /\ measure[h].avg # NoLatency
                     THEN [results[h] EXCEPT !.avg_latency = measure[h].avg]
                     ELSE results[h]]
    /\ summary' = Summarized(Cardinality(DOMAIN measure))
    /\ scan_phase' = "finished"
    /\ UNCHANGED <<notPing, concurrent_limit, max_retries, ping_targets,
                   semaphore, probe, measure, ping_log,
                   sampled>>

PingNext ==
    \/ StartScan
    \/ \E h \in 1..PingHosts : Acquire(h)
    \/ \E h \in 1..PingHosts : PingAttempt(h)
    \/ \E h \in 1..PingHosts : BackoffDone(h)
    \/ CheckAvailabilityDone
    \/ \E h \in 1..PingHosts : MeasureRound(h)
    \/ \E h \in 1..PingHosts : SampleDone(h)
    \/ \E h \in 1..PingHosts : MeasureTimeUp(h)
    \/ MeasureLatenciesDone

InitPing ==
    /\ ProberIdle /\ BatchIdle /\ ScanIdle /\ PureIdle /\ ManagerIdle /\ ConfigIdle
    /\ PingInit(0..PingHosts, {PingRetries})

SpecPing == InitPing /\ [][PingNext]_vars

\* The scan of one host, every attempt and sleep written down.
ProbeNext ==
    \/ StartScan
    \/ Acquire(1)
    \/ LoggedAttempt(1)
    \/ BackoffDone(1)
    \/ CheckAvailabilityDone
    \/ MeasureRound(1)
    \/ SampleDone(1)
    \/ MeasureTimeUp(1)
    \/ MeasureLatenciesDone

InitProbe ==
    /\ ProberIdle /\ BatchIdle /\ ScanIdle /\ PureIdle /\ ManagerIdle /\ ConfigIdle
    /\ PingInit({1}, 1..MaxRetries)

SpecProbe == InitProbe /\ [][ProbeNext]_vars

\* ------------------------------------- _measure_latency of one host
\* PingResult
PingResults == {"success", "timeout", "unreachable", "error"}

\* One host filed alive by Phase 1, its sampling about to start.
InitLatency ==
    /\ ProberIdle /\ BatchIdle /\ ScanIdle /\ PureIdle /\ ManagerIdle /\ ConfigIdle
    /\ concurrent_limit = 1
    /\ max_retries = 1
    /\ ping_targets = <<PingTargetIp(1)>>
    /\ scan_phase = "phase2"
    /\ semaphore = 1
    /\ probe = <<NoProbe>>
    /\ measure = <<[pc |-> "loop", latencies |-> <<>>, rounds |-> 0,
                    avg |-> NoLatency]>>
    /\ results \in {<<ScanResult(PingTargetIp(1), TRUE, latency)>> :
                       latency \in LatencyValues \cup {NoLatency}}
    /\ summary = [total_hosts |-> 1, alive_hosts |-> 0, dead_hosts |-> 0]
    /\ ping_log = <<>>
    /\ sampled = <<>>

\* result, latency = await self._execute_ping(ip): the call as a whole,
\* with what it returned.
ExecutePingReturns(h) ==
    /\ h \in DOMAIN measure
    /\ measure[h].pc = "loop"
    /\ measure[h].rounds < LatencyRounds
    /\ \E result \in PingResults :
         \E latency \in IF result = "success"
                        THEN LatencyValues \cup {NoLatency}
                        ELSE {NoLatency} :
            /\ probe' = [probe EXCEPT ![h] = Return(@, result, latency)]
            /\ sampled' = Append(sampled,
                                 [result |-> result, latency |-> latency])
    /\ measure' = [measure EXCEPT ![h].pc = "pinging", ![h].rounds = @ + 1]
    /\ UNCHANGED <<notPing, concurrent_limit, max_retries, ping_targets,
                   scan_phase, semaphore, results, summary, ping_log>>

LatencyNext ==
    \/ ExecutePingReturns(1)
    \/ SampleDone(1)
    \/ MeasureTimeUp(1)
    \/ MeasureLatenciesDone

SpecLatency == InitLatency /\ [][LatencyNext]_vars

\* ------------------------------------------------ functions on their own
notDetector == <<proberVars, batchVars, scanVars, pingVars, managerVars, configVars>>

\* No function below but detect_vendor touches the detector's cache.
notPure == <<notDetector, cache>>

\* The call returns: the frame of every function called on its own.
Returns(value) ==
    /\ returned = Nothing
    /\ returned' = value
    /\ UNCHANGED <<notPure, call, sockets>>

\* A percentage as the exact quotient num / den.
Quotient(num, den) == [num |-> num, den |-> den]

\* A plausible slip: the division is made whatever total_hosts is.
PercentUnguarded(count, total_hosts) == Quotient(count * 100, total_hosts)

\* ScanSummary.alive_percent, ScanSummary.dead_percent:
\* 0.0 if total_hosts == 0, else (count / total_hosts) * 100
Percent(count, total_hosts) ==
    IF total_hosts = 0 THEN Quotient(0, 1)
    ELSE Quotient(count * 100, total_hosts)

alive_percent(s) == Percent(s.alive_hosts, s.total_hosts)

dead_percent(s) == Percent(s.dead_hosts, s.total_hosts)

\* Any ScanSummary: a dataclass of three counts.
InitSummary ==
    /\ ProberIdle /\ BatchIdle /\ ScanIdle /\ PingIdle
    /\ call \in {[fn |-> "percent",
                  summary |-> [total_hosts |-> t, alive_hosts |-> a,
                               dead_hosts |-> d]] :
                    t \in 0..SummaryMax, a \in 0..SummaryMax,
                    d \in 0..SummaryMax}
    /\ returned = Nothing
    /\ sockets = {}
    /\ cache = {} /\ ManagerIdle /\ ConfigIdle

\* get_summary reads both properties.
ReadPercents ==
    /\ call.fn = "percent"
    /\ Returns([alive_percent |-> alive_percent(call.summary),
                dead_percent |-> dead_percent(call.summary)])

SpecSummary == InitSummary /\ [][ReadPercents]_vars

\* Ports a host may answer on when all its protocols are looked at.
DetectPorts == {22, 2222, 22222, 23, 2323, 80, 443, 8443}

\* Any set of open ports scan_ports can hand to detect_all_protocols.
InitDetect ==
    /\ ProberIdle /\ BatchIdle /\ ScanIdle /\ PingIdle
    /\ call \in {[fn |-> "detect_all_protocols", open_ports |-> open] :
                    open \in SUBSET DetectPorts}
    /\ returned = Nothing
    /\ sockets = {}
    /\ cache = {} /\ ManagerIdle /\ ConfigIdle

\* detect_all_protocols after scan_ports returned.
DetectAll ==
    /\ call.fn = "detect_all_protocols"
    /\ Returns(detect_all_protocols(call.open_ports))

SpecDetect == InitDetect /\ [][DetectAll]_vars

\* ------------------------------------------------------ scan_single_port
\* How sock.connect_ex can end: 0, an error number (refused, timed out,
\* unreachable), or an exception (the address cannot be resolved, the
\* port is out of range).
ConnectOutcomes ==
    {"connected", "refused", "timeout", "unreachable", "exception"}

\* A plausible slip: the exception leaves scan_single_port.
PortExceptionPropagates == "raised"

\* except Exception as e: ... return port, False
OnPortException == "returned"

\* What one call leaves in the history: how it ended, and on which outcome.
PortExit(port, exit, is_open, outcome) ==
    [port |-> port, exit |-> exit, is_open |-> is_open, outcome |-> outcome]

\* No call yet, no socket open.
InitPort ==
    /\ ProberIdle /\ BatchIdle /\ ScanIdle /\ PingIdle
    /\ call = Nothing
    /\ returned = <<>>
    /\ sockets = {}
    /\ cache = {} /\ ManagerIdle /\ ConfigIdle

\* scan_single_port(ip, port) is entered.
CallScanSinglePort(port) ==
    /\ call = Nothing
    /\ Len(returned) < MaxProbes
    /\ call' = [fn |-> "scan_single_port", port |-> port, pc |-> "socket",
                sock |-> 0]
    /\ UNCHANGED <<notPure, returned, sockets>>

\* sock = socket.socket(...); sock.settimeout(self.timeout)
CreateSocket ==
    /\ call # Nothing
    /\ call.pc = "socket"
    /\ \/ /\ call' = [call EXCEPT !.pc = "connect",
                                  !.sock = Len(returned) + 1]
          /\ sockets' = sockets \cup {Len(returned) + 1}
          /\ UNCHANGED returned
       \/ \* socket.socket raises: no socket exists
          /\ call' = Nothing
          /\ returned' = Append(returned,
                                PortExit(call.port, OnPortException, FALSE,
                                         "no socket"))
          /\ UNCHANGED sockets
    /\ UNCHANGED notPure

\* result = sock.connect_ex((ip, port)); sock.close(); return port,
\* result == 0; or the except clause when connect_ex raises.
Connect ==
    /\ call # Nothing
    /\ call.pc = "connect"
    /\ \E outcome \in ConnectOutcomes :
         IF outcome = "exception"
         THEN /\ returned' = Append(returned,
                                    PortExit(call.port, OnPortException,
                                             FALSE, outcome))
              /\ UNCHANGED sockets
         ELSE /\ sockets' = sockets \ {call.sock}
              /\ returned' = Append(returned,
                                    PortExit(call.port, "returned",
                                             outcome = "connected", outcome))
    /\ call' = Nothing
    /\ UNCHANGED notPure

\* A socket object nothing refers to any more is closed by the
\* interpreter when it collects it, which may be at once or never.
CollectSocket ==
    /\ \E sock \in sockets :
         /\ call # Nothing => call.sock # sock
         /\ sockets' = sockets \ {sock}
    /\ UNCHANGED <<notPure, call, returned>>

PortNext ==
    \/ \E port \in Range(ScanPortList) : CallScanSinglePort(port)
    \/ CreateSocket
    \/ Connect
    \/ CollectSocket

SpecPort == InitPort /\ [][PortNext]_vars

\* ------------------------------------------- repeated scans of one host
\* The ports of the catalog a scan of the host probes here.
RescanPorts == {22, 2222, 23}

\* A plausible slip: the port of a protocol is the one whose probe
\* completed first.
DetectFirstCompleted(open_list) ==
    LET Of(p) == SelectSeq(open_list,
                           LAMBDA port : port \in Range(PROTOCOL_PORTS[p]))
    IN  [detect_all_protocols(Range(open_list)) EXCEPT
            !.open_ports = open_list,
            !.port = [p \in Protocols |->
                        IF Of(p) = <<>> THEN NoPort ELSE Head(Of(p))]]

\* detect_all_protocols on the list scan_ports returned: only membership
\* in the list is looked at.
DetectFromScan(open_list) ==
    [detect_all_protocols(Range(open_list)) EXCEPT !.open_ports = open_list]

\* scan_ports of a new scan: every port probe submitted, none completed.
NewScan(reachable) ==
    [fn |-> "scan_ports", reachable |-> reachable, completed |-> {},
     open_ports |-> <<>>]

\* A host with some set of reachable ports, its first scan started.
InitRescan ==
    /\ ProberIdle /\ BatchIdle /\ ScanIdle /\ PingIdle
    /\ call \in {NewScan(reachable) : reachable \in SUBSET RescanPorts}
    /\ returned = <<>>
    /\ sockets = {}
    /\ cache = {} /\ ManagerIdle /\ ConfigIdle

\* as_completed yields the future of a port: open_ports.append(port) when
\* the port is open.
PortCompletes(port) ==
    /\ Len(returned) < MaxScans
    /\ port \notin call.completed
    /\ call' = [call EXCEPT
                  !.completed = @ \cup {port},
                  !.open_ports = IF port \in call.reachable
                                 THEN Append(@, port) ELSE @]
    /\ UNCHANGED <<notPure, returned, sockets>>

\* scan_ports returns, detect_all_protocols returns; the host is then
\* scanned again.
ScanReturns ==
    /\ Len(returned) < MaxScans
    /\ call.completed = RescanPorts
    /\ returned' = Append(returned, DetectFromScan(call.open_ports))
    /\ call' = NewScan(call.reachable)
    /\ UNCHANGED <<notPure, sockets>>

RescanNext ==
    \/ \E port \in RescanPorts : PortCompletes(port)
    \/ ScanReturns

SpecRescan == InitRescan /\ [][RescanNext]_vars

\* ------------------------------------- the clients as scoped resources
\* How the connect of a client can end, for the scope that follows:
\* with a session, without one but with the transport still open, or
\* without any connection object having been made.
ScopeConnects == {"session", "rejected", "no connection"}

\* How the block of the with statement is left after a connect that gave
\* a session.
ScopeExits == {"exhausted", "result", "exception"}

\* with SSHClient() as ssh_client / with TelnetClient() as telnet_client
NewClient(protocol) ==
    [fn |-> protocol, pc |-> "connect", connection |-> 0, exit |-> None]

\* TelnetClient.disconnect: self.connection.write(b"exit\n") comes first
\* in the try block and close() is skipped when it raises;
\* SSHClient.disconnect calls close() first.
Closes(protocol, wrote) == protocol = "ssh" \/ wrote

\* Whether self.connection.write(b"exit\n") returns (TRUE) or raises, as
\* it can on a connection the device has dropped; nothing is written by
\* the ssh client, nor without a connection.
ExitWritten(protocol, connection) ==
    IF protocol = "telnet" /\ connection # 0 THEN BOOLEAN ELSE {FALSE}

\* No scope opened yet.
InitScope ==
    /\ ProberIdle /\ BatchIdle /\ ScanIdle /\ PingIdle
    /\ call = Nothing
    /\ returned = <<>>
    /\ sockets = {}
    /\ cache = {} /\ ManagerIdle /\ ConfigIdle

\* The with statement is entered for the next credential.
EnterScope(protocol) ==
    /\ call = Nothing
    /\ Len(returned) < MaxScopes
    /\ call' = NewClient(protocol)
    /\ UNCHANGED <<notPure, returned, sockets>>

\* client.connect(ip, credentials): self.connection is assigned as soon
\* as the paramiko client or the Telnet object exists; a failed connect
\* returns (False, error) and the block returns None.
ClientConnect ==
    /\ call # Nothing
    /\ call.pc = "connect"
    /\ \E how \in ScopeConnects :
         CASE how = "session" ->
                /\ call' = [call EXCEPT !.pc = "commands",
                                        !.connection = Len(returned) + 1]
                /\ sockets' = sockets \cup {Len(returned) + 1}
           [] how = "rejected" ->
                /\ call' = [call EXCEPT !.pc = "exit", !.exit = "no session",
                                        !.connection = Len(returned) + 1]
                /\ sockets' = sockets \cup {Len(returned) + 1}
           [] how = "no connection" ->
                /\ call' = [call EXCEPT !.pc = "exit", !.exit = how]
                /\ UNCHANGED sockets
    /\ UNCHANGED <<notPure, returned>>

\* The command loop: it runs out of commands, returns device_info, or an
\* exception leaves the block.
LeaveBlock ==
    /\ call # Nothing
    /\ call.pc = "commands"
    /\ \E exit \in ScopeExits : call' = [call EXCEPT !.pc = "exit",
                                                     !.exit = exit]
    /\ UNCHANGED <<notPure, returned, sockets>>

\* __exit__: self.disconnect(); the scope is left.
Disconnect ==
    /\ call # Nothing
    /\ call.pc = "exit"
    /\ \E wrote \in ExitWritten(call.fn, call.connection) :
         LET closed == call.connection # 0 /\ Closes(call.fn, wrote)
         IN  /\ sockets' = IF closed THEN sockets \ {call.connection}
                           ELSE sockets
             /\ returned' =
                  Append(returned,
                         [protocol |-> call.fn, exit |-> call.exit,
                          wrote |-> wrote,
                          connection |-> IF closed THEN 0
                                         ELSE call.connection])
    /\ call' = Nothing
    /\ UNCHANGED notPure

ScopeNext ==
    \/ \E protocol \in {"ssh", "telnet"} : EnterScope(protocol)
    \/ ClientConnect
    \/ LeaveBlock
    \/ Disconnect

SpecScope == InitScope /\ [][ScopeNext]_vars

\* ------------------------------------------------------------ detect_vendor
\* The output of a command is a sequence of blocks of 500 characters.  A
\* block is named by the one word of it that matters to the vendor table;
\* the rest of the block is filler that no signature matches.
VendorWords == {"cisco", "juniper", "fortios", "uptime"}

Outputs == UNION {[1..n -> VendorWords] : n \in 0..MaxBlocks}

\* output[:500]: the first block of the output, if it has one.
KeyBlocks == 1

cache_key(output) ==
    IF Len(output) <= KeyBlocks THEN output ELSE SubSeq(output, 1, KeyBlocks)

Detection(output, vendor) ==
    [output |-> output, vendor |-> vendor,
     model |-> IF vendor = None THEN None ELSE extract_model(output, vendor)]

InitVendor ==
    /\ ProberIdle
    /\ BatchIdle
    /\ ScanIdle
    /\ PingIdle
    /\ call = Nothing
    /\ returned = Nothing
    /\ sockets = {}
    /\ cache = {} /\ ManagerIdle /\ ConfigIdle

\* detect_vendor(output) on the detector that the engine keeps for a run.
DetectVendor(output) ==
    LET hit == {e \in cache : e.key = cache_key(output)}
        vendor == Computed(output)
    IN  /\ IF hit # {}
           THEN /\ returned' =
                      Detection(output, (CHOOSE e \in hit : TRUE).vendor)
                /\ UNCHANGED cache
           ELSE /\ returned' = Detection(output, vendor)
                /\ cache' = IF vendor = None
                            THEN cache
                            ELSE cache \cup {[key |-> cache_key(output),
                                              vendor |-> vendor]}
        /\ UNCHANGED <<notDetector, call, sockets>>

VendorNext == \E output \in Outputs : DetectVendor(output)

SpecVendor == InitVendor /\ [][VendorNext]_vars

\* ---------------------------------------------------- determine_device_type
\* The words of an output that decide the device type; "uptime" stands for
\* a block without any.
TypeWords ==
    {"asa", "nexus", "junos", "screenos", "comware", "aruba", "uptime"}

TypeOutputs == UNION {[1..n -> TypeWords] : n \in 0..MaxBlocks}

\* The vendors detect_vendor can return: each vendor of the table has a
\* pattern that is its own name.
Vendors == {VENDOR_PATTERNS[i] : i \in DOMAIN VENDOR_PATTERNS}

InitType ==
    /\ ProberIdle /\ BatchIdle /\ ScanIdle /\ PingIdle
    /\ call \in {[fn |-> "determine_device_type", vendor |-> vendor,
                  output |-> output] :
                    vendor \in Vendors, output \in TypeOutputs}
    /\ returned = Nothing
    /\ sockets = {}
    /\ cache = {} /\ ManagerIdle /\ ConfigIdle

DetermineDeviceType ==
    /\ call.fn = "determine_device_type"
    /\ Returns([device_type |->
                    determine_device_type(call.vendor, call.output)])

SpecType == InitType /\ [][DetermineDeviceType]_vars

\* ------------------------------------------------------- DeviceCredentials
\* The highest port number __post_init__ accepts.
MaxPort == 65535

CredentialUsernames == {"", "admin"}

CredentialPorts == {-1, 0, 1, 22, MaxPort, MaxPort + 1}

\* A plausible slip: the lower limit is tested with < instead of <=.
PostInitPortZero(username, ssh_port, telnet_port) ==
    IF username = "" THEN "ValueError: username"
    ELSE IF ssh_port < 0 \/ ssh_port > MaxPort THEN "ValueError: ssh_port"
    ELSE IF telnet_port < 0 \/ telnet_port > MaxPort
    THEN "ValueError: telnet_port"
    ELSE None

\* __post_init__: the error it raises, or None when it raises none.
PostInit(username, ssh_port, telnet_port) ==
    IF username = "" THEN "ValueError: username"
    ELSE IF ssh_port <= 0 \/ ssh_port > MaxPort THEN "ValueError: ssh_port"
    ELSE IF telnet_port <= 0 \/ telnet_port > MaxPort
    THEN "ValueError: telnet_port"
    ELSE None

InitCredentials ==
    /\ ProberIdle /\ BatchIdle /\ ScanIdle /\ PingIdle
    /\ call \in {[fn |-> "DeviceCredentials", username |-> username,
                  ssh_port |-> ssh_port, telnet_port |-> telnet_port] :
                    username \in CredentialUsernames,
                    ssh_port \in CredentialPorts,
                    telnet_port \in CredentialPorts}
    /\ returned = Nothing
    /\ sockets = {}
    /\ cache = {} /\ ManagerIdle /\ ConfigIdle

\* DeviceCredentials(username=..., password=..., ssh_port=..., telnet_port=...)
NewCredentials ==
    /\ call.fn = "DeviceCredentials"
    /\ LET error == PostInit(call.username, call.ssh_port, call.telnet_port)
       IN  Returns(IF error # None
                   THEN [raised |-> error, credentials |-> Nothing]
                   ELSE [raised |-> None,
                         credentials |->
                            [username |-> call.username,
                             ssh_port |-> call.ssh_port,
                             telnet_port |-> call.telnet_port]])

SpecCredentials == InitCredentials /\ [][NewCredentials]_vars

\* ------------------------------------------------------- CIDR expansion
\* The bits of an IPv4 address; the longest prefix parse_line accepts.
AddressBits == 32

\* parse_line lists the hosts of a network of at most this many addresses.
LargeNetwork == 65536

\* a.b.c.d as the integer ipaddress works with, written as its two
\* 16-bit halves <<high, low>>.
Ipv4(a, b, c, d) == <<a * 256 + b, c * 256 + d>>

\* address + i on the two halves.
AddressPlus(address, i) ==
    <<address[1] + ((address[2] + i) \div 65536), (address[2] + i) % 65536>>

\* str(ip): the four octets of the dotted form.
Dotted(address) ==
    <<address[1] \div 256, address[1] % 256,
      address[2] \div 256, address[2] % 256>>

\* The lines "address/prefix" given to the parsers.
CidrAddresses ==
    {Ipv4(192, 168, 1, 0), Ipv4(192, 168, 1, 77), Ipv4(10, 0, 0, 0),
     Ipv4(10, 1, 2, 3), Ipv4(172, 16, 255, 255)}

\* The prefixes: networks of 4096 addresses and less for both parsers, and
\* for parse_line the two around the size it treats as large.
CidrPrefixes == {20, 24, 28, 29, 30, 31, 32}

LargePrefixes == {15, 16}

\* ipaddress.ip_network(line, strict=False): the host bits are cleared.
ip_network(address, prefixlen) ==
    LET num_addresses == 2 ^ (AddressBits - prefixlen)
    IN  [network_address |->
            IF num_addresses <= 65536
            THEN <<address[1], address[2] - (address[2] % num_addresses)>>
            ELSE <<address[1] - (address[1] % (num_addresses \div 65536)), 0>>,
         num_addresses |-> num_addresses, prefixlen |-> prefixlen]

\* network[i], and network[-i] for a negative i.
NetworkItem(network, i) ==
    IF i >= 0 THEN AddressPlus(network.network_address, i)
    ELSE AddressPlus(network.network_address, network.num_addresses + i)

\* network.hosts(): every address but the network and the broadcast
\* address; every address of a /31 and of a /32.  In their order.
hosts(network) ==
    IF network.prefixlen >= AddressBits - 1
    THEN [i \in 1..network.num_addresses |-> NetworkItem(network, i - 1)]
    ELSE [i \in 1..(network.num_addresses - 2) |-> NetworkItem(network, i)]

\* IPParser.parse_line on a line "address/prefix" with a valid prefix.
parse_line(address, prefixlen) ==
    LET network == ip_network(address, prefixlen)
        listed == hosts(network)
    IN  IF prefixlen > AddressBits THEN {}
        ELSE IF network.num_addresses > LargeNetwork
        THEN {Dotted(NetworkItem(network, 1)), Dotted(NetworkItem(network, -2))}
        ELSE {Dotted(listed[i]) : i \in DOMAIN listed}

\* PortScanner._parse_ip_range, as DataLoader.load_ip_list, on such a line:
\* the list of the hosts in their order.
parse_ip_range(address, prefixlen) ==
    LET network == ip_network(address, prefixlen)
        listed == hosts(network)
    IN  [i \in DOMAIN listed |-> Dotted(listed[i])]

InitCidr ==
    /\ ProberIdle /\ BatchIdle /\ ScanIdle /\ PingIdle
    /\ call \in {[fn |-> fn, address |-> address, prefixlen |-> prefixlen] :
                    fn \in {"parse_line", "_parse_ip_range"},
                    address \in CidrAddresses, prefixlen \in CidrPrefixes}
                \cup
                 {[fn |-> "parse_line", address |-> address,
                   prefixlen |-> prefixlen] :
                    address \in CidrAddresses, prefixlen \in LargePrefixes}
    /\ returned = Nothing
    /\ sockets = {}
    /\ cache = {} /\ ManagerIdle /\ ConfigIdle

ParseLine ==
    /\ call.fn = "parse_line"
    /\ LET ip_set == parse_line(call.address, call.prefixlen)
       IN  Returns([ips |-> ip_set, count |-> Cardinality(ip_set)])

ParseIpRange ==
    /\ call.fn = "_parse_ip_range"
    /\ LET listed == parse_ip_range(call.address, call.prefixlen)
       IN  Returns([ips |-> Range(listed), count |-> Len(listed)])

CidrNext == ParseLine \/ ParseIpRange

SpecCidr == InitCidr /\ [][CidrNext]_vars

\* ------------------------- SSHConnectionManager / TelnetConnectionManager
notManager ==
    <<proberVars, batchVars, scanVars, pingVars, pureVars, configVars>>

\* The credentials the callers come with.
ManagerCredentials == {1, 2}

NoClient == 0

\* key = f"{host}:{credentials.ssh_port}:{credentials.username}", and the
\* same with telnet_port in the TelnetConnectionManager.
connection_key(protocol, host, credentials) ==
    <<host,
      IF protocol = "ssh" THEN credentials.ssh_port
                          ELSE credentials.telnet_port,
      credentials.username>>

\* A plausible slip: the lookup and the connect are made without the lock.
LockAlwaysFree == TRUE

\* threading.Lock: one thread at a time is inside "with self.lock".
LockFree == manager_lock = 0

\* One manager of either class, and the threads that have just called
\* get_connection(host, credentials) on it.
InitManager ==
    /\ ProberIdle /\ BatchIdle /\ ScanIdle /\ PingIdle /\ PureIdle /\ ConfigIdle
    /\ connections = <<>>
    /\ manager_lock = 0
    /\ clients = <<>>
    /\ \E protocol \in {"ssh", "telnet"},
          with \in [1..MaxCallers -> ManagerCredentials] :
         callers =
             [t \in 1..MaxCallers |->
                 [pc |-> "called",
                  key |-> connection_key(protocol, ProbeIp,
                                         DeviceCredentials(with[t])),
                  client |-> NoClient,
                  got |-> NoClient]]

\* with self.lock:
AcquireLock(t) ==
    /\ UNCHANGED notManager
    /\ callers[t].pc = "called"
    /\ LockFree
    /\ manager_lock' = t
    /\ callers' = [callers EXCEPT ![t].pc = "locked"]
    /\ UNCHANGED <<connections, clients>>

\* if key in self.connections: return self.connections[key]
\* client = SSHClient()
Lookup(t) ==
    /\ UNCHANGED notManager
    /\ callers[t].pc = "locked"
    /\ IF callers[t].key \in DOMAIN connections
       THEN /\ callers' = [callers EXCEPT
                   ![t].pc = "returned",
                   ![t].got = connections[callers[t].key]]
            /\ manager_lock' = 0
            /\ UNCHANGED clients
       ELSE /\ clients' = Append(clients,
                   [key |-> callers[t].key, connected |-> FALSE,
                    disconnected |-> FALSE])
            /\ callers' = [callers EXCEPT
                   ![t].pc = "connecting",
                   ![t].client = Len(clients) + 1]
            /\ UNCHANGED manager_lock
    /\ UNCHANGED connections

\* success, error = client.connect(host, credentials), then the cache
\* entry and the client, or client.disconnect() and None; the with block
\* ends.
ManagerConnect(t) ==
    /\ UNCHANGED notManager
    /\ callers[t].pc = "connecting"
    /\ \E success \in BOOLEAN :
         IF success
         THEN /\ clients' = [clients EXCEPT
                     ![callers[t].client].connected = TRUE]
              /\ connections' =
                     DictSet(connections, callers[t].key, callers[t].client)
              /\ callers' = [callers EXCEPT
                     ![t].pc = "returned", ![t].got = callers[t].client]
         ELSE /\ clients' = [clients EXCEPT
                     ![callers[t].client].disconnected = TRUE]
              /\ callers' = [callers EXCEPT
                     ![t].pc = "returned", ![t].got = NoClient]
              /\ UNCHANGED connections
    /\ manager_lock' = 0

ManagerNext ==
    \/ \E t \in 1..MaxCallers : AcquireLock(t)
    \/ \E t \in 1..MaxCallers : Lookup(t)
    \/ \E t \in 1..MaxCallers : ManagerConnect(t)

SpecManager == InitManager /\ [][ManagerNext]_vars

\* --------------------------------------------- BackupManager and its files
\* A hostname is a sequence of pieces: words, and single characters that
\* matter to the file names.
BackupHostnames ==
    {<<"sw1">>, <<"core", "_", "sw1">>, <<"core", ":", "sw1">>,
     <<"sw2", ".">>}

\* [<>:"/\\|?*\x00-\x1F], as far as the hostnames go.
Unsafe == {":", "/"}

\* safe_name[:100]
NameLimit == 100

RECURSIVE Strip_(_)
\* safe_name.strip(' .')
Strip_(name) ==
    IF name = <<>> THEN name
    ELSE IF Head(name) \in {" ", "."} THEN Strip_(Tail(name))
    ELSE IF name[Len(name)] \in {" ", "."}
    THEN Strip_(SubSeq(name, 1, Len(name) - 1))
    ELSE name

_sanitize_filename(filename) ==
    LET safe_name == [i \in DOMAIN filename |->
                         IF filename[i] \in Unsafe THEN "_" ELSE filename[i]]
        stripped == Strip_(safe_name)
    IN  SubSeq(stripped, 1,
               IF Len(stripped) < NameLimit THEN Len(stripped) ELSE NameLimit)

\* f"{safe_hostname}_{timestamp}.conf": the name is kept as its two parts.
get_backup_filename(hostname, timestamp) ==
    [stem |-> _sanitize_filename(hostname), stamp |-> timestamp]

\* The file save_config writes at the moment timestamp; it is created then.
SavedFile(hostname, timestamp) ==
    [name |-> get_backup_filename(hostname, timestamp), ctime |-> timestamp]

\* re.match(r'([^_]+)_\d{4}-\d{2}-\d{2}_\d{2}-\d{2}-\d{2}\.conf', name):
\* group 1 is the run of characters before the first underscore and the
\* timestamp has to follow that underscore at once; no piece of a hostname
\* is a timestamp.
DeviceOf(name) ==
    IF name.stem # <<>> /\ \A i \in DOMAIN name.stem : name.stem[i] # "_"
    THEN name.stem
    ELSE None

\* A plausible slip: the oldest file of a device over the limit is removed,
\* and only that one.
OldestOnly(backups, max_backups) ==
    {f \in backups : \A g \in backups : f.ctime <= g.ctime}

\* backups.sort(key=st_ctime); backups[:-max_backups]
Oldest(backups, max_backups) ==
    {f \in backups :
        Cardinality({g \in backups : g.ctime > f.ctime}) >= max_backups}

\* The directory after cleanup_old_backups(max_backups).
cleanup_old_backups(files, max_backups) ==
    LET matched == {f \in files : DeviceOf(f.name) # None}
        backups_by_device(key) ==
            {f \in matched : DeviceOf(f.name) = key}
        removed ==
            UNION {IF Cardinality(backups_by_device(DeviceOf(f.name)))
                          > max_backups
                   THEN Oldest(backups_by_device(DeviceOf(f.name)),
                               max_backups)
                   ELSE {} : f \in matched}
    IN  files \ removed

\* A backup directory filled by save_config calls, and the call on it.
InitCleanup ==
    /\ ProberIdle /\ BatchIdle /\ ScanIdle /\ PingIdle
    /\ call \in {[fn |-> "cleanup_old_backups", files |-> files,
                  max_backups |-> max_backups] :
                    files \in SUBSET {SavedFile(hostname, timestamp) :
                                         hostname \in BackupHostnames,
                                         timestamp \in 1..MaxStamps},
                    max_backups \in 1..MaxKeep}
    /\ returned = Nothing
    /\ sockets = {}
    /\ cache = {} /\ ManagerIdle /\ ConfigIdle

CleanupOldBackups ==
    /\ call.fn = "cleanup_old_backups"
    /\ Returns([files |-> cleanup_old_backups(call.files, call.max_backups)])

SpecCleanup == InitCleanup /\ [][CleanupOldBackups]_vars

\* ------------------------------------------- backup_device, from the save
\* self.backup_dir.glob(f"{safe_hostname}_*.conf"): the names that begin
\* with the sanitized hostname and an underscore.
Globbed(hostname, files) ==
    LET safe_hostname == _sanitize_filename(hostname)
        n == Len(safe_hostname)
    IN  {f \in files :
            \/ f.name.stem = safe_hostname
            \/ /\ Len(f.name.stem) > n
               /\ SubSeq(f.name.stem, 1, n + 1) = safe_hostname \o <<"_">>}

\* backups.sort(key=st_ctime, reverse=True); backups[0]: a newest file of
\* the glob, or None when the glob is empty.
find_latest_backup(hostname, files) ==
    LET backups == Globbed(hostname, files)
    IN  IF backups = {} THEN {Nothing}
        ELSE {f \in backups : \A g \in backups : g.ctime <= f.ctime}

\* The directory before the call, the hostname read from the device and
\* the moment of the save, later than every file of the directory.
InitBackup ==
    /\ ProberIdle /\ BatchIdle /\ ScanIdle /\ PingIdle
    /\ call \in {[fn |-> "backup_device", files |-> files,
                  hostname |-> hostname, now |-> MaxStamps + 1] :
                    files \in SUBSET {SavedFile(hostname, timestamp) :
                                         hostname \in BackupHostnames,
                                         timestamp \in 1..MaxStamps},
                    hostname \in BackupHostnames}
    /\ returned = Nothing
    /\ sockets = {}
    /\ cache = {} /\ ManagerIdle /\ ConfigIdle

\* backup_device once the configuration is read and cleaned: save_config,
\* find_latest_backup, and compare_files when the file found is another
\* one than the file just written.
BackupDevice ==
    /\ call.fn = "backup_device"
    /\ LET backup_path == SavedFile(call.hostname, call.now)
           files == {f \in call.files : f.name # backup_path.name}
                        \cup {backup_path}
       IN  \E old_backup \in find_latest_backup(call.hostname, files) :
              Returns([files |-> files,
                       backup_path |-> backup_path,
                       old_backup |-> old_backup,
                       compared |-> IF old_backup # Nothing
                                       /\ old_backup # backup_path
                                    THEN <<old_backup, backup_path>>
                                    ELSE <<>>])

SpecBackup == InitBackup /\ [][BackupDevice]_vars

\* ------------------------------------- ConfigManager.get_ignore_patterns
notConfig ==
    <<proberVars, batchVars, scanVars, pingVars, managerVars, sockets, cache>>

\* The ignore_patterns a configuration file can give: the common list with
\* lists of device types, the common list alone, no common list.
LoadedPatterns ==
    {[key \in {"common", "cisco_ios", "juniper_junos"} |->
         CASE key = "common" -> <<"^! Time:.*">>
           [] key = "cisco_ios" -> <<"^ntp clock-period.*">>
           [] key = "juniper_junos" -> <<"^## Last commit:.*">>],
     [key \in {"common"} |-> <<"^! Time:.*">>],
     [key \in {"cisco_ios"} |-> <<"^ntp clock-period.*">>]}

DeviceTypes == {"cisco_ios", "juniper_junos", "hp_comware", "linux"}

\* ignore_patterns.get(key, [])
PatternsOf(patterns, key) ==
    IF key \in DOMAIN patterns THEN patterns[key] ELSE <<>>

\* What get_ignore_patterns returns on the stored ignore_patterns.
get_ignore_patterns(patterns, device_type) ==
    PatternsOf(patterns, "common") \o PatternsOf(patterns, device_type)

\* The ConfigManager after _load_config; call keeps what was loaded.
InitConfig ==
    /\ ProberIdle /\ BatchIdle /\ ScanIdle /\ PingIdle /\ ManagerIdle
    /\ config \in LoadedPatterns
    /\ call = [fn |-> "get_ignore_patterns", loaded |-> config]
    /\ returned = <<>>
    /\ sockets = {}
    /\ cache = {}

\* patterns = ...get('common', []); patterns.extend(device_patterns);
\* return patterns. With a common list in the configuration, patterns is
\* that stored list itself and extend changes it in place.
GetIgnorePatterns(device_type) ==
    /\ Len(returned) < MaxGets
    /\ returned' = Append(returned,
           [device_type |-> device_type,
            patterns |-> get_ignore_patterns(config, device_type)])
    /\ config' = IF "common" \in DOMAIN config
                 THEN [config EXCEPT
                          !["common"] = get_ignore_patterns(config, device_type)]
                 ELSE config
    /\ UNCHANGED <<notConfig, call>>

ConfigNext == \E device_type \in DeviceTypes : GetIgnorePatterns(device_type)

SpecConfig == InitConfig /\ [][ConfigNext]_vars





Init == ProberInit /\ BatchIdle /\ ScanIdle /\ PingIdle /\ PureIdle /\ ManagerIdle /\ ConfigIdle

Next ==
    \/ DetectProtocols
    \/ DetectRaises
    \/ SshConnect
    \/ SshCommand
    \/ SshHostname
    \/ TelnetConnect
    \/ TelnetCommand
    \/ TelnetHostname

Spec == Init /\ [][Next]_vars

\* ---------------------------------- discover_devices on the single target
\* discover_devices([ProbeIp], credentials_list) on a fresh engine, the
\* moment its worker enters discover_single_device.
InitEndToEnd ==
    /\ ProberInit
    /\ invocations = 1
    /\ max_workers = 1
    /\ ip_list = <<ProbeIp>>
    /\ main_pc = "collecting"
    /\ task = <<"running">>
    /\ left = <<0>>
    /\ ret = <<Pending>>
    /\ collected = {}
    /\ discovered_devices = <<>>
    /\ discovered_count = 0
    /\ now = 0
    /\ ScanIdle
    /\ PingIdle
    /\ PureIdle /\ ManagerIdle /\ ConfigIdle

\* discover_single_device returns its record or None, or raises: the
\* future of the target is done.
ProbeDone ==
    /\ pc \in {"SUCCESS", "FAILURE", "RAISED"}
    /\ task = <<"running">>
    /\ task' = <<"done">>
    /\ ret' = <<[kind |-> IF pc = "RAISED" THEN "raise"
                          ELSE IF device = Nothing THEN "none" ELSE "device",
                 device |-> device]>>
    /\ UNCHANGED <<invocations, max_workers, ip_list, main_pc, left, collected,
                   discovered_devices, discovered_count, now>>
    /\ UNCHANGED notBatch

EndToEndNext ==
    \/ Next
    \/ ProbeDone
    \/ Collect(1)
    \/ ReturnDevices

SpecEndToEnd == InitEndToEnd /\ [][EndToEndNext]_vars


\* ======================================================== claims, prober
AttemptsOf(protocol) ==
    LET Is(a) == a.protocol = protocol IN SelectSeq(attempts, Is)

SshAttempts == AttemptsOf("ssh")

TelnetAttempts == AttemptsOf("telnet")

\* C1: within each protocol the credentials are tried in the order of the
\* caller's list (the j-th attempt uses the j-th credential), every attempt
\* before the last one failed, nothing is attempted after the first
\* success, and the returned record carries the username and password of
\* the credential that succeeded.
C1_CredentialOrder ==
    /\ \A p \in {"ssh", "telnet"} :
         LET s == AttemptsOf(p) IN
         \A j \in 1..Len(s) :
            /\ s[j].index = j
            /\ j <= Len(credentials_list)
            /\ s[j].username = credentials_list[j].username
            /\ j < Len(s) => ~s[j].found
    /\ pc \in {"TRYING_SSH", "SSH_SESSION"} =>
         cred_idx = Len(SshAttempts) + 1
    /\ pc \in {"TRYING_TELNET", "TELNET_SESSION"} =>
         cred_idx = Len(TelnetAttempts) + 1
    /\ \A j \in 1..Len(attempts) :
         attempts[j].found => j = Len(attempts) /\ pc = "SUCCESS"
    /\ pc = "SUCCESS" =>
         /\ attempts # <<>>
         /\ LET a == attempts[Len(attempts)] IN
            /\ a.found
            /\ device # Nothing
            /\ device.protocol = a.protocol
            /\ device.username = credentials_list[a.index].username
            /\ device.password = credentials_list[a.index].password

\* C1 witness: credentials [A, B, C], A and B failed over ssh, C succeeded
\* and is the credential of the record.
C1_Witness ==
    /\ pc = "SUCCESS"
    /\ Len(credentials_list) = 3
    /\ Len(attempts) = 3
    /\ \A j \in 1..3 : attempts[j].protocol = "ssh"
    /\ ~attempts[1].found /\ ~attempts[2].found /\ attempts[3].found
    /\ device.username = credentials_list[3].username
    /\ device.username # credentials_list[1].username

\* C2: a telnet attempt is made only when telnet is open and the ssh path
\* has ended without a record (ssh closed and never tried, or every
\* credential tried over ssh and failed); ssh attempts all come before
\* telnet attempts; after an ssh success there is no telnet attempt; and a
\* host with telnet open ends in FAILURE only after every credential was
\* tried over telnet, in list order.
C2_TelnetOnlyAfterSsh ==
    LET n == Len(credentials_list)
        telnetStarted ==
            TelnetAttempts # <<>> \/ pc \in {"TRYING_TELNET", "TELNET_SESSION"}
    IN
    /\ telnetStarted =>
         /\ protocol_info.open["telnet"]
         /\ \A j \in 1..Len(SshAttempts) : ~SshAttempts[j].found
         /\ Len(SshAttempts) = IF protocol_info.open["ssh"] THEN n ELSE 0
    /\ \A i, j \in 1..Len(attempts) :
         i < j /\ attempts[i].protocol = "telnet" =>
            attempts[j].protocol = "telnet"
    /\ (\E j \in 1..Len(SshAttempts) : SshAttempts[j].found) =>
         TelnetAttempts = <<>> /\ pc = "SUCCESS"
    /\ pc = "FAILURE" /\ protocol_info.open["telnet"] =>
         /\ Len(TelnetAttempts) = n
         /\ \A j \in 1..n :
              TelnetAttempts[j].index = j /\ ~TelnetAttempts[j].found

\* C2 witness: both protocols open, every credential failed over ssh and
\* then over telnet, and the host ended in FAILURE.
C2_Witness ==
    /\ pc = "FAILURE"
    /\ protocol_info.open["ssh"] /\ protocol_info.open["telnet"]
    /\ Len(credentials_list) >= 2
    /\ Len(SshAttempts) = Len(credentials_list)
    /\ Len(TelnetAttempts) = Len(credentials_list)

\* C3 (as claimed): when no credential of the list authenticated on any
\* open management protocol, the prober ends in FAILURE without a record.
C3_NoAuthNoRecord ==
    (/\ pc \in {"SUCCESS", "FAILURE"}
     /\ \A j \in 1..Len(attempts) : ~attempts[j].authenticated)
    => pc = "FAILURE" /\ device = Nothing

\* C4: has_management is false exactly when no ssh and no telnet candidate
\* port is open, and then the prober is in FAILURE with no session opened,
\* no credential tried and no record.
C4_NoManagementFailsAtOnce ==
    protocol_info # Nothing =>
        LET mgmt == Range(PROTOCOL_PORTS["ssh"])
                    \cup Range(PROTOCOL_PORTS["telnet"])
            none_open == protocol_info.open_ports \cap mgmt = {}
        IN  /\ protocol_info.has_management = ~none_open
            /\ none_open =>
                 /\ pc = "FAILURE"
                 /\ attempts = <<>>
                 /\ session = Nothing
                 /\ device = Nothing

\* C4 witness: only a web port is open, credentials were supplied, and the
\* prober has ended in FAILURE without an attempt.
C4_Witness ==
    /\ protocol_info # Nothing
    /\ protocol_info.open_ports = {80}
    /\ ~protocol_info.has_management
    /\ Len(credentials_list) >= 2
    /\ pc = "FAILURE"
    /\ attempts = <<>>

\* ========================================================= claims, batch
Done == {h \in DOMAIN task : task[h] = "done"}

\* ceil(n / w)
CeilDiv(n, w) == (n + w - 1) \div w

\* C5: a probe that raised or returned None never stops the batch: the
\* caller never leaves the loop by an exception, while it is collecting a
\* step is always possible, at the return every target has been probed
\* and collected, and the map holds exactly the hosts whose probe returned
\* a record, each under its own ip.
C5_FailureNeverAborts ==
    /\ main_pc \in {"constructed", "collecting", "returned"}
    /\ main_pc = "collecting" => ENABLED BatchNext
    /\ main_pc = "returned" => Done = DOMAIN ip_list /\ collected = Done
    /\ \A h \in collected :
         ret[h].kind = "device" =>
            /\ ip_list[h] \in DOMAIN discovered_devices
            /\ discovered_devices[ip_list[h]] = ret[h].device
    /\ DOMAIN discovered_devices =
         {ip_list[h] : h \in {g \in collected : ret[g].kind = "device"}}

\* C5 witness: the batch returned although one probe raised and one
\* returned None; a probe collected after both is in the map.
C5_Witness ==
    /\ main_pc = "returned"
    /\ Len(ip_list) = 3
    /\ ret[1].kind = "raise"
    /\ ret[2].kind = "none"
    /\ ret[3].kind = "device"
    /\ DOMAIN discovered_devices = {ip_list[3]}

\* C6: never more than max_workers probes are in progress, and a batch of
\* N probes of duration ProbeDuration each returns no earlier than
\* ceil(N / max_workers) * ProbeDuration.
C6_WorkerCap ==
    /\ Cardinality(Running) <= max_workers
    /\ main_pc = "returned" =>
         now >= CeilDiv(Len(ip_list), max_workers) * ProbeDuration

\* C6 witness: three targets on two workers: the pool was full with a task
\* still queued, and the batch returned after exactly two rounds.
C6_Witness ==
    /\ main_pc = "returned"
    /\ Len(ip_list) = 3
    /\ max_workers = 2
    /\ now = 2 * ProbeDuration

\* ========================================================= claims, pools
PortChecksInFlight(h) ==
    IF h \in DOMAIN port_task THEN Cardinality(PortRunning(h)) ELSE 0

\* C8: the two caps are independent. Never more than max_workers hosts are
\* in flight and never more than port_max_workers port checks of one host;
\* port checks run only inside a host that holds a host slot; a queued
\* host starts whenever a host worker is free, whatever the port checks in
\* flight, and a queued port check starts whenever its own host's pool has
\* a free worker, whatever the other hosts do.
C8_IndependentCaps ==
    /\ Cardinality(Running) <= max_workers
    /\ \A h \in DOMAIN port_task :
         /\ Cardinality(PortRunning(h)) <= port_max_workers
         /\ PortRunning(h) # {} => h \in Running
         /\ (h \in Running /\ PortQueued(h) # {}
             /\ Cardinality(PortRunning(h)) < port_max_workers)
            => ENABLED (\E i \in 1..NumScanPorts : StartPortProbe(h, i))
    /\ (Queued # {} /\ Cardinality(Running) < max_workers)
       => ENABLED (\E h \in 1..ScanHosts : ScanStartProbe(h))

\* C8 witness: one host slot only, held by a host that runs two port
\* checks at once while the other host waits for the slot.
C8_Witness ==
    /\ max_workers = 1
    /\ Queued # {}
    /\ \E h \in Running : Cardinality(PortRunning(h)) = 2

\* ========================================================== claims, ping
\* The coroutines inside the async with block of _execute_ping.
Holders == {h \in DOMAIN probe : probe[h].pc \in {"attempt", "sleep"}}

\* C7: in both phases the probes that hold the semaphore, their retry
\* sleeps included, are never more than concurrent_limit, and the value of
\* the semaphore is what they leave of it.
C7_SemaphoreBound ==
    /\ Cardinality(Holders) <= concurrent_limit
    /\ semaphore = concurrent_limit - Cardinality(Holders)

\* C7 witness: in Phase 2 the semaphore is exhausted by probes one of
\* which sleeps before a retry, and another probe waits for it.
C7_Witness ==
    /\ scan_phase = "phase2"
    /\ Cardinality(Holders) = concurrent_limit
    /\ \E h \in Holders : probe[h].pc = "sleep"
    /\ \E h \in DOMAIN probe : probe[h].pc = "acquire"

AttemptEvents == SelectSeq(ping_log, LAMBDA e : e.kind = "attempt")

FailureResult(outcome) ==
    CASE outcome = "nonzero" -> "unreachable"
      [] outcome = "timeout" -> "timeout"
      [] outcome = "exception" -> "error"
      [] OTHER -> None

\* C9: one _execute_ping makes at most max_retries attempts, numbered in
\* order; an attempt that exits 0 is the last one, the loop is left with
\* it and the probe returns SUCCESS; a probe returns TIMEOUT, UNREACHABLE or ERROR only after
\* exactly max_retries attempts that all failed, with the kind of the
\* last; a host whose Phase 1 probe was not SUCCESS (its log is kept, for
\* it is not sampled) is filed with is_alive false.
C9_RetriesThenDead ==
    /\ Len(AttemptEvents) <= max_retries
    /\ \A i \in 1..Len(AttemptEvents) :
         /\ AttemptEvents[i].attempt = i - 1
         /\ AttemptEvents[i].outcome = "exit0"
            => /\ i = Len(AttemptEvents)
               /\ probe[1].pc \in {"returned", "none"}
               /\ probe[1].pc = "returned" => probe[1].result = "success"
    /\ (1 \in DOMAIN probe /\ probe[1].pc = "returned")
       => /\ AttemptEvents # <<>>
          /\ LET last == AttemptEvents[Len(AttemptEvents)]
             IN  IF probe[1].result = "success"
                 THEN last.outcome = "exit0"
                 ELSE /\ Len(AttemptEvents) = max_retries
                      /\ probe[1].result = FailureResult(last.outcome)
    /\ \A h \in DOMAIN results :
         IF h \in DOMAIN measure
         THEN results[h].is_alive
         ELSE /\ AttemptEvents[Len(AttemptEvents)].outcome # "exit0"
              /\ ~results[h].is_alive
              /\ results[h].avg_latency = NoLatency

\* C9 witness: a probe that was retried returned a failure after
\* max_retries attempts and the host is filed dead.
C9_Witness ==
    /\ scan_phase = "finished"
    /\ max_retries >= 2
    /\ Len(AttemptEvents) = max_retries
    /\ AttemptEvents[1].outcome = "nonzero"
    /\ AttemptEvents[max_retries].outcome = "timeout"
    /\ ~results[1].is_alive

\* C10: every attempt after the first of a probe follows a sleep of
\* 0.1 x (number of the attempt before it) seconds, whatever the failure
\* of the attempt before it.
C10_BackoffBetweenAttempts ==
    \A i \in 1..Len(ping_log) :
        (ping_log[i].kind = "attempt" /\ ping_log[i].attempt >= 1)
        => /\ i > 1
           /\ ping_log[i - 1].kind = "sleep"
           /\ ping_log[i - 1].tenths = ping_log[i].attempt

\* Phase 2 runs on filed results and on the hosts filed alive alone.
SamplingOnlyAlive ==
    /\ (measure # <<>>) => (/\ scan_phase \in {"phase2", "finished"}
                            /\ DOMAIN results = DOMAIN ping_targets)
    /\ (scan_phase = "phase1") => (results = <<>>)
    /\ (scan_phase \in {"phase2", "finished"})
       => (/\ DOMAIN measure = {h \in DOMAIN results : results[h].is_alive}
           /\ \A h \in DOMAIN results :
                (~results[h].is_alive) => (probe[h] = NoProbe))

\* C11: Phase 2 starts only when every Phase 1 probe has returned and its
\* result is filed; it samples exactly the hosts filed alive; a host filed
\* dead is never pinged again; no step of Phase 2 changes an is_alive.
C11_PhaseTwoOnlyAlive ==
    /\ []SamplingOnlyAlive
    /\ [][(scan_phase = "phase2")
          => (\A h \in DOMAIN results :
                 results'[h].is_alive = results[h].is_alive)]_vars

\* C11 witness: in Phase 2 an alive host is being pinged while another
\* host is filed dead.
C11_Witness ==
    /\ scan_phase = "phase2"
    /\ \E h \in DOMAIN measure : probe[h].pc = "attempt"
    /\ \E h \in DOMAIN results : ~results[h].is_alive

\* C12: a host alive after Phase 1 whose Phase 2 kept no sample ends the
\* scan with is_alive true and without a latency figure.
C12_NoSampleNoLatency ==
    \A h \in DOMAIN measure :
        (scan_phase = "finished" /\ measure[h].latencies = <<>>)
        => /\ results[h].is_alive
           /\ results[h].avg_latency = NoLatency

\* The samples a host's pings returned with SUCCESS and a time.
GoodSamples ==
    SelectSeq(sampled,
              LAMBDA r : r.result = "success" /\ r.latency # NoLatency)

GoodLatencies == [i \in DOMAIN GoodSamples |-> GoodSamples[i].latency]

\* C13: when the scan ends, the latency of a host with at least one good
\* Phase 2 sample is the hundredth of a ms nearest to the mean of its good
\* samples, the pings that failed counting for nothing; the samples 10.0,
\* 20.0 and 30.0 give 20.00.
C13_MeanOfGoodSamples ==
    (scan_phase = "finished" /\ GoodSamples # <<>>)
    => LET n == Len(GoodSamples)
           total == Sum(GoodLatencies)
           shown == results[1].avg_latency
           off == IF shown * n >= total THEN shown * n - total
                  ELSE total - shown * n
       IN  /\ shown # NoLatency
           /\ 2 * off <= n
           /\ GoodLatencies = <<1000, 2000, 3000>> => shown = 2000

\* C13 witness: 10.0, 20.0 and 30.0 ms were sampled and 20.00 is filed.
C13_Witness ==
    /\ scan_phase = "finished"
    /\ GoodLatencies = <<1000, 2000, 3000>>
    /\ results[1].avg_latency = 2000

\* ===================================================== claims, functions
\* value is count / total_hosts x 100, or 0.0 when total_hosts is 0.
IsPercent(value, count, total_hosts) ==
    /\ value.den > 0
    /\ IF total_hosts = 0 THEN value.num = 0
       ELSE value.num * total_hosts = count * 100 * value.den

\* C14: alive_percent and dead_percent are 0.0 for total_hosts = 0, with
\* no division by zero, and count / total_hosts x 100 otherwise; one alive
\* host of two is 50.0.
C14_Percent ==
    returned # Nothing
    => LET s == call.summary
       IN  /\ IsPercent(returned.alive_percent, s.alive_hosts, s.total_hosts)
           /\ IsPercent(returned.dead_percent, s.dead_hosts, s.total_hosts)
           /\ (s.alive_hosts = 1 /\ s.total_hosts = 2)
              => returned.alive_percent.num = 50 * returned.alive_percent.den

\* C14 witness: the percentages of a summary without hosts were read.
C14_Witness ==
    /\ returned # Nothing
    /\ call.summary.total_hosts = 0
    /\ call.summary.alive_hosts = 1
    /\ returned.alive_percent = Quotient(0, 1)

\* C15: a protocol is marked open iff one of its catalog ports is in the
\* open set; the port recorded for an open protocol is open, belongs to
\* the protocol and no port before it in the protocol's list is open; no
\* port is recorded for a protocol that is not open.
C15_FirstCatalogPort ==
    returned # Nothing
    => \A p \in Protocols :
         LET ports == PROTOCOL_PORTS[p]
         IN  /\ returned.open[p] <=> (Range(ports) \cap call.open_ports # {})
             /\ IF returned.open[p]
                THEN \E i \in DOMAIN ports :
                        /\ returned.port[p] = ports[i]
                        /\ ports[i] \in call.open_ports
                        /\ \A j \in 1..(i - 1) : ports[j] \notin call.open_ports
                ELSE returned.port[p] = NoPort

\* C15 witness: ssh answers on its second and third port only, and the
\* second is recorded; telnet is closed.
C15_Witness ==
    /\ returned # Nothing
    /\ call.open_ports = {2222, 22222, 8443}
    /\ returned.port["ssh"] = 2222
    /\ ~returned.open["telnet"]

\* C17: scan_single_port never raises; it returns open = true iff the
\* connect completed, and every failure, an exception while creating or
\* connecting the socket included, comes back as open = false.
C17_NeverRaises ==
    \A i \in DOMAIN returned :
        /\ returned[i].exit = "returned"
        /\ returned[i].is_open <=> (returned[i].outcome = "connected")

\* C17 witness: a probe whose connect raised returned false and a probe
\* that connected returned true.
C17_Witness ==
    /\ \E i \in DOMAIN returned :
         returned[i].outcome = "exception" /\ ~returned[i].is_open
    /\ \E i \in DOMAIN returned :
         returned[i].outcome = "connected" /\ returned[i].is_open

\* C18: when no scan_single_port call is running, no socket is open: each
\* call has closed its socket before it returned, on every path.
C18_SocketClosedOnEveryPath ==
    (call = Nothing) => (sockets = {})

\* C16: every scan of a host whose reachable ports stay the same returns
\* the reachable ports as its open_ports set, each once, and the same
\* per-protocol result as every other scan, whatever the order in which
\* the port probes completed.
C16_ScanIdempotent ==
    \A i \in DOMAIN returned :
        /\ Range(returned[i].open_ports) = call.reachable
        /\ Len(returned[i].open_ports) = Cardinality(call.reachable)
        /\ \A j \in DOMAIN returned :
             /\ returned[i].open = returned[j].open
             /\ returned[i].port = returned[j].port
             /\ returned[i].has_management = returned[j].has_management
             /\ returned[i].has_web = returned[j].has_web

\* C16 witness: two scans whose probes of two ssh ports completed in
\* opposite orders.
C16_Witness ==
    /\ Len(returned) = 2
    /\ returned[1].open_ports = <<2222, 22>>
    /\ returned[2].open_ports = <<22, 2222>>
    /\ returned[1].port["ssh"] = 22

\* C19: whenever a scope of an SSHClient or a TelnetClient has been left,
\* by whatever path, the client holds no connection and the connection it
\* had is closed.
C19_ScopeClosesConnection ==
    /\ \A i \in DOMAIN returned : returned[i].connection = 0
    /\ (call = Nothing) => (sockets = {})

\* C20: detect_vendor returns the first vendor of the table, in the order
\* of the table, one of whose signatures matches the output, wherever the
\* matching words stand in the text, and no vendor when none matches.
C20_FirstVendorInTableOrder ==
    returned # Nothing =>
        \A i \in DOMAIN VENDOR_PATTERNS :
            (/\ re_search(VENDOR_PATTERNS[i], returned.output)
             /\ \A j \in 1..(i - 1) :
                    ~re_search(VENDOR_PATTERNS[j], returned.output))
            => returned.vendor = VENDOR_PATTERNS[i]

\* C21: whatever calls came before on the same DeviceDetector, the vendor
\* and the model returned for an output are those that a detector with an
\* empty cache returns for it.
C21_CacheNeverChangesResult ==
    returned # Nothing =>
        returned = Detection(returned.output, Computed(returned.output))

\* C22: for every vendor that detect_vendor can return,
\* determine_device_type returns a device type; it is never unset.
C22_DeviceTypeNeverUnset ==
    (/\ call # Nothing
     /\ call.fn = "determine_device_type"
     /\ returned # Nothing)
    => returned.device_type # None

\* The scenario of C23: only port 22 is open, the one credential of the
\* list was accepted over ssh and an identification command returned the
\* Cisco IOS banner.
BannerReturned ==
    /\ pc = "SSH_SESSION"
    /\ Len(credentials_list) = 1
    /\ protocol_info.open_ports = {22}
    /\ session.info # Nothing
    /\ session.info.raw_output = Banner

\* What discover_devices holds once it has returned.
ReturnedMap ==
    (main_pc = "returned" /\ pc = "SUCCESS")
    => (/\ DOMAIN discovered_devices = {ProbeIp}
        /\ discovered_devices[ProbeIp] = device)

NoTelnetWithoutPort ==
    (protocol_info # Nothing /\ protocol_info.open_ports = {22})
    => \A i \in DOMAIN attempts : attempts[i].protocol # "telnet"

\* C23: with only port 22 open and one valid ssh credential whose
\* identification command returns the Cisco IOS banner, the prober ends in
\* a record for 10.0.0.5 with protocol ssh, status active, vendor Cisco,
\* device type cisco_ios and os_version 15.0; discover_devices returns a map
\* holding exactly that record under 10.0.0.5; no telnet attempt is made.
C23_EndToEndCiscoIos ==
    /\ [](ReturnedMap /\ NoTelnetWithoutPort)
    /\ [][BannerReturned =>
            (/\ pc' = "SUCCESS"
             /\ device'.ip_address = "10.0.0.5"
             /\ device'.protocol = "ssh"
             /\ device'.status = "active"
             /\ device'.vendor = "Cisco"
             /\ device'.device_type = "cisco_ios"
             /\ device'.os_version = "15.0")]_vars

\* C23 witness: discover_devices returned the map of the scenario.
C23_Witness ==
    /\ main_pc = "returned"
    /\ pc = "SUCCESS"
    /\ Len(credentials_list) = 1
    /\ protocol_info.open_ports = {22}
    /\ Len(attempts) = 1
    /\ DOMAIN discovered_devices = {"10.0.0.5"}
    /\ discovered_devices["10.0.0.5"].device_type = "cisco_ios"
    /\ discovered_devices["10.0.0.5"].os_version = "15.0"

\* C24: in an authenticated session, an identification command whose
\* output is empty or holds no recognisable vendor is not taken as the
\* identification of the device: the output the session settles on is one
\* in which a vendor was recognised.
C24_UnparsedOutputSkipped ==
    (/\ pc \in {"SSH_SESSION", "TELNET_SESSION"}
     /\ session.accepted
     /\ session.info # Nothing)
    => session.info.vendor # None

\* C25: once an identification command succeeded, the host ends in SUCCESS
\* whatever the hostname command does; the hostname of the record is the
\* ip when that command failed or returned nothing, and its trimmed output
\* when it succeeded.
C25_HostnameBestEffort ==
    \A i \in DOMAIN attempts :
        attempts[i].found =>
            /\ pc = "SUCCESS"
            /\ device # Nothing
            /\ IF ~attempts[i].hostname.success \/ attempts[i].hostname.text = ""
               THEN device.hostname = ProbeIp
               ELSE device.hostname = Strip(attempts[i].hostname.text)

\* C25 witness: records made after a failed hostname command and after one
\* whose output had to be trimmed.
C25_Witness ==
    /\ pc = "SUCCESS"
    /\ \E i \in DOMAIN attempts :
         /\ attempts[i].found
         /\ ~attempts[i].hostname.success
         /\ device.hostname = "10.0.0.5"

\* C26: discover_devices called with an empty credential list makes no
\* network activity: no port of the target is probed and no session is
\* attempted.
C26_EmptyCredentialsNoActivity ==
    (main_pc # "idle" /\ credentials_list = <<>>)
    => (protocol_info = Nothing /\ attempts = <<>>)

ValidPort(port) == port >= 1 /\ port <= 65535

\* C27: a DeviceCredentials value exists only with a non-empty username and
\* both ports in 1..65535; a construction with an empty username or a port
\* outside 1..65535 raises and creates no value.
C27_CredentialsValid ==
    (call # Nothing /\ call.fn = "DeviceCredentials" /\ returned # Nothing)
    => IF /\ call.username # ""
          /\ ValidPort(call.ssh_port)
          /\ ValidPort(call.telnet_port)
       THEN /\ returned.raised = None
            /\ returned.credentials.username = call.username
            /\ returned.credentials.ssh_port = call.ssh_port
            /\ returned.credentials.telnet_port = call.telnet_port
       ELSE /\ returned.raised # None
            /\ returned.credentials = Nothing

\* C27 witness: a construction with ssh_port 0 raised.
C27_Witness ==
    /\ call # Nothing
    /\ call.fn = "DeviceCredentials"
    /\ call.username = "admin"
    /\ call.ssh_port = 0
    /\ returned # Nothing
    /\ returned.raised = "ValueError: ssh_port"

\* The usable host addresses of the network of address / prefixlen, in
\* dotted form: the addresses that agree with address on the first
\* prefixlen bits, without the first and the last one when prefixlen < 31.
UsableHosts(address, prefixlen) ==
    LET size == 2 ^ (32 - prefixlen)
        value(i) == IF size <= 65536
                    THEN <<address[1], address[2] - (address[2] % size) + i>>
                    ELSE <<address[1] - (address[1] % (size \div 65536))
                             + (i \div 65536), i % 65536>>
        offsets == IF prefixlen >= 31 THEN 0..(size - 1) ELSE 1..(size - 2)
    IN  {<<value(i)[1] \div 256, value(i)[1] % 256,
           value(i)[2] \div 256, value(i)[2] % 256>> : i \in offsets}

\* C28: the expansion of a valid CIDR line yields the usable host addresses
\* of its network, all of them, each once, and no other address, whatever
\* the prefix length.
C28_CidrExpansionExact ==
    (/\ call # Nothing
     /\ call.fn \in {"parse_line", "_parse_ip_range"}
     /\ returned # Nothing)
    => /\ returned.count = IF call.prefixlen >= 31
                           THEN 2 ^ (32 - call.prefixlen)
                           ELSE 2 ^ (32 - call.prefixlen) - 2
       /\ returned.ips = UsableHosts(call.address, call.prefixlen)

\* C29: a host whose pings all failed is filed with is_alive false and with
\* the text of its error in last_error.
C29_DeadHostKeepsErrorText ==
    \A h \in DOMAIN results :
        ~results[h].is_alive => results[h].last_error # None

\* C30: once the caller has interrupted discover_devices, no probe that had
\* not started yet is started.
C30_NoStartAfterInterrupt ==
    [][main_pc = "interrupted" =>
         \A h \in DOMAIN task : task[h] = "queued" => task'[h] = "queued"]_vars

\* C31: the map an invocation of discover_devices returns holds only hosts
\* of that invocation's target list.
C31_InvocationOwnInputsOnly ==
    main_pc = "returned" =>
        \A ip \in DOMAIN discovered_devices : ip \in Range(ip_list)

\* The hosts whose probe handed a record to its future.
Found == {h \in DOMAIN ret : ret[h].kind = "device"}

ConnectedClients(key) ==
    {c \in DOMAIN clients : clients[c].key = key /\ clients[c].connected}

\* C33: whatever the interleaving of get_connection calls, a key has at
\* most one connected client, the cache holds exactly the connected
\* clients under their keys, every caller that gets a client gets the
\* cached one of its key, and a failed connect leaves the cache as it was
\* and hands None to its caller.
C33_LookupOrCreateAtomic ==
    /\ [](/\ \A t \in DOMAIN callers :
                Cardinality(ConnectedClients(callers[t].key)) <= 1
          /\ \A key \in DOMAIN connections :
                connections[key] \in ConnectedClients(key)
          /\ \A t \in DOMAIN callers :
                (callers[t].pc = "returned" /\ callers[t].got # NoClient) =>
                    /\ callers[t].key \in DOMAIN connections
                    /\ callers[t].got = connections[callers[t].key])
    /\ [][\A t \in DOMAIN callers :
              (/\ callers[t].pc = "connecting"
               /\ callers'[t].pc = "returned"
               /\ ~clients'[callers[t].client].connected) =>
                  /\ connections' = connections
                  /\ callers'[t].got = NoClient]_vars

C33_Witness ==
    /\ \E c \in DOMAIN clients : clients[c].disconnected
    /\ \E t, u \in DOMAIN callers :
         /\ t # u
         /\ callers[t].pc = "returned"
         /\ callers[u].pc = "returned"
         /\ callers[t].got # NoClient
         /\ callers[t].got = callers[u].got

\* C34: in the ssh path an authentication failure lets the prober go on to
\* the next credential, and a timeout or network failure of the connect
\* ends the ssh attempts of the host.
C34_TimeoutEndsSshAttempts ==
    /\ \A i \in DOMAIN attempts :
         (/\ attempts[i].protocol = "ssh"
          /\ attempts[i].error = "auth"
          /\ attempts[i].index < Len(credentials_list)) =>
             (i = Len(attempts) =>
                 /\ pc \in {"TRYING_SSH", "SSH_SESSION"}
                 /\ cred_idx = attempts[i].index + 1)
    /\ \A i, j \in DOMAIN attempts :
         (/\ i < j
          /\ attempts[i].protocol = "ssh"
          /\ attempts[i].error = "timeout") =>
             attempts[j].protocol # "ssh"

\* C35: every attempt has a session of its own, a host probe has at most
\* one session open at any time, namely the one of the attempt it is in,
\* and none is open between two attempts or when the probe returns.
C35_OneOwnSessionAtATime ==
    /\ Cardinality(sockets) <= 1
    /\ \A i \in DOMAIN returned : returned[i].connection \notin sockets
    /\ (call # Nothing /\ call.connection # 0) =>
           sockets = {call.connection}
    /\ (call # Nothing /\ call.connection = 0) => sockets = {}
    /\ (call = Nothing) => sockets = {}

\* C36: in a session the commands go out in the order of
\* DISCOVERY_COMMANDS, one after the other from the first; the loop goes
\* on only after an output that failed or has at most 10 characters and
\* ends at the first longer one, on which the identification is made; a
\* session whose commands are used up ends the attempt without a record,
\* and the engine goes on with the next credential.
C36_CommandsInOrderUntilOutput ==
    /\ [](session # Nothing =>
            /\ session.next_cmd \in DOMAIN DISCOVERY_COMMANDS
            /\ (session.last = Nothing) =>
                   (session.next_cmd = 1 /\ session.info = Nothing)
            /\ (session.last # Nothing /\ session.info = Nothing) =>
                   ~(session.last.success /\ session.last.len > 10)
            /\ (session.info # Nothing) =>
                   /\ session.last.success /\ session.last.len > 10
                   /\ session.info.raw_output = session.last.output)
    /\ [][(session # Nothing /\ session' # Nothing) =>
              \/ session'.next_cmd = session.next_cmd
              \/ /\ session'.next_cmd = session.next_cmd + 1
                 /\ session.info = Nothing
                 /\ session'.info = Nothing]_vars
    /\ [][(session # Nothing /\ session' = Nothing /\ session.info = Nothing)
              => /\ session.next_cmd = Len(DISCOVERY_COMMANDS)
                 /\ device' = Nothing
                 /\ attempts' = Append(attempts,
                        Attempt(session.protocol, session.accepted, None,
                                FALSE))
                 /\ IF cred_idx < Len(credentials_list)
                    THEN /\ cred_idx' = cred_idx + 1
                         /\ pc' = IF session.protocol = "ssh"
                                  THEN "TRYING_SSH" ELSE "TRYING_TELNET"
                    ELSE pc' # "SUCCESS"]_vars

C36_Witness ==
    /\ Len(attempts) >= 2
    /\ attempts[1].protocol = "ssh"
    /\ attempts[1].authenticated
    /\ ~attempts[1].found
    /\ attempts[1].error = None
    /\ attempts[2].found
    /\ attempts[2].index = 2
    /\ pc = "SUCCESS"

\* C37: when scan_hosts has returned, the results hold one ScanResult per
\* target, under the target's own address; total_hosts is the number of
\* targets, alive_hosts + dead_hosts = total_hosts, and alive_hosts is the
\* number of results with is_alive set.
C37_SummaryPartitionsTargets ==
    scan_phase = "finished" =>
        /\ DOMAIN results = DOMAIN ping_targets
        /\ \A h \in DOMAIN results : results[h].ip = ping_targets[h]
        /\ summary.total_hosts = Len(ping_targets)
        /\ summary.alive_hosts + summary.dead_hosts = summary.total_hosts
        /\ summary.alive_hosts =
               Cardinality({h \in DOMAIN results : results[h].is_alive})
        /\ summary.dead_hosts =
               Cardinality({h \in DOMAIN results : ~results[h].is_alive})

C37_Witness ==
    /\ scan_phase = "finished"
    /\ summary.alive_hosts = 1
    /\ summary.dead_hosts = 1
    /\ \E h \in DOMAIN results : results[h].is_alive
    /\ \E h \in DOMAIN results : ~results[h].is_alive

\* The backups of a hostname among the files of a directory.
BackupsOf(hostname, files) ==
    {f \in files : \E timestamp \in 1..MaxStamps :
                       f.name = get_backup_filename(hostname, timestamp)}

\* C38: after cleanup_old_backups(max_backups) every hostname is left with
\* at most max_backups backups, and they are its newest ones.
C38_CleanupKeepsNewest ==
    returned # Nothing =>
        \A hostname \in BackupHostnames :
            LET before == BackupsOf(hostname, call.files)
                after == BackupsOf(hostname, returned.files)
            IN  /\ Cardinality(after) <= call.max_backups
                /\ after \subseteq before
                /\ \A f \in after, g \in before \ after : g.ctime < f.ctime

\* C39: when the hostname had a backup before the save, backup_device
\* compares the file it has just written with the newest of them.
C39_ComparesWithPreviousBackup ==
    (returned # Nothing /\ BackupsOf(call.hostname, call.files) # {}) =>
        \E previous \in BackupsOf(call.hostname, call.files) :
            /\ \A g \in BackupsOf(call.hostname, call.files) :
                   g.ctime <= previous.ctime
            /\ returned.compared = <<previous, returned.backup_path>>

\* C40: get_ignore_patterns leaves the stored configuration as it was
\* loaded, and every call returns the common patterns followed by the
\* patterns of its device type, whatever calls were made before.
C40_IgnorePatternsNotAccumulated ==
    /\ config = call.loaded
    /\ \A i \in DOMAIN returned :
         returned[i].patterns =
             PatternsOf(call.loaded, "common")
                 \o PatternsOf(call.loaded, returned[i].device_type)

====
